---- MODULE Spec2Model ----
(***************************************************************************)
(* Meshtastic URL codec (src/app.py): MeshtasticDecoder.decode_channel_url *)
(* and MeshtasticEncoder.encode_channel_set / encode_single_channel.       *)
(*                                                                         *)
(* Text is a sequence of one-character strings, bytes are sequences of     *)
(* integers in 0..255.  Library calls the handlers make (base64, urlparse, *)
(* parse_qs, bytes.fromhex, protobuf ParseFromString / SerializeToString / *)
(* MessageToDict) are modelled by what they compute on these values.       *)
(***************************************************************************)
EXTENDS Integers, Sequences, FiniteSets, TLC

(***************************************************************************)
(* Characters                                                              *)
(***************************************************************************)
Ascii ==
  << " ", "!", "\"", "#", "$", "%", "&", "'", "(", ")", "*", "+", ",", "-", ".", "/",
     "0", "1", "2", "3", "4", "5", "6", "7", "8", "9", ":", ";", "<", "=", ">", "?",
     "@", "A", "B", "C", "D", "E", "F", "G", "H", "I", "J", "K", "L", "M", "N", "O",
     "P", "Q", "R", "S", "T", "U", "V", "W", "X", "Y", "Z", "[", "\\", "]", "^", "_",
     "\\x96", "a", "b", "c", "d", "e", "f", "g", "h", "i", "j", "k", "l", "m", "n", "o",
     "p", "q", "r", "s", "t", "u", "v", "w", "x", "y", "z", "{", "|", "}", "~" >>

\* code point of a printable ASCII character
Ord(c) == 31 + (CHOOSE i \in 1..Len(Ascii) : Ascii[i] = c)

\* character of a code point (non-printable code points get a symbolic name)
Chr(n) == IF n \in 32..126 THEN Ascii[n - 31] ELSE "\\x" \o ToString(n)

\* str.replace(old, new) for one-character old and new
Replace(s, old, new) == [i \in 1..Len(s) |-> IF s[i] = old THEN new ELSE s[i]]

\* c * n
Repeat(c, n) == [i \in 1..n |-> c]

RECURSIVE rstrip(_, _)
\* str.rstrip(c)
rstrip(s, c) ==
  IF s # << >> /\ s[Len(s)] = c THEN rstrip(SubSeq(s, 1, Len(s) - 1), c) ELSE s

\* s.startswith(p)
startswith(s, p) == Len(s) >= Len(p) /\ SubSeq(s, 1, Len(p)) = p

\* smallest i >= from with s[i] = c, or 0
IndexFrom(s, c, from) ==
  LET hits == { i \in from..Len(s) : s[i] = c }
  IN IF hits = {} THEN 0 ELSE CHOOSE i \in hits : \A k \in hits : i <= k

\* str.find(c), 1-based, 0 when absent
Find(s, c) == IndexFrom(s, c, 1)

\* sub in s
Contains(s, sub) ==
  \E i \in 1..(Len(s) - Len(sub) + 1) : SubSeq(s, i, i + Len(sub) - 1) = sub

\* str.encode(utf-8) for ASCII text
utf8_encode(s) == [i \in 1..Len(s) |-> Ord(s[i])]

(***************************************************************************)
(* base64 (binascii.b2a_base64 / a2b_base64, non-strict mode)              *)
(***************************************************************************)
\* sextet value of a character of the standard alphabet, 64 for any other
table_a2b(c) ==
  IF \A i \in 1..Len(Ascii) : Ascii[i] # c THEN 64
  ELSE LET o == Ord(c) IN
       IF o \in 65..90 THEN o - 65
       ELSE IF o \in 97..122 THEN o - 71
       ELSE IF o \in 48..57 THEN o + 4
       ELSE IF c = "+" THEN 62
       ELSE IF c = "/" THEN 63
       ELSE 64

\* character of a sextet value in the standard alphabet
table_b2a(v) ==
  IF v < 26 THEN Chr(65 + v)
  ELSE IF v < 52 THEN Chr(71 + v)
  ELSE IF v < 62 THEN Chr(v - 4)
  ELSE IF v = 62 THEN "+" ELSE "/"

\* base64.b64encode: standard alphabet, '=' padded; character k of the
\* output is one sextet of the three-byte group it belongs to
b64encode(bs) ==
  LET n == Len(bs)
      byte(i) == IF i <= n THEN bs[i] ELSE 0
      char(k) ==
        LET g == 3 * ((k - 1) \div 4)
            j == (k - 1) % 4
        IN IF j = 0 THEN table_b2a(byte(g + 1) \div 4)
           ELSE IF j = 1
           THEN table_b2a((byte(g + 1) % 4) * 16 + (byte(g + 2) \div 16))
           ELSE IF j = 2
           THEN IF g + 2 <= n
                THEN table_b2a((byte(g + 2) % 16) * 4 + (byte(g + 3) \div 64))
                ELSE "="
           ELSE IF g + 3 <= n THEN table_b2a(byte(g + 3) % 64) ELSE "="
  IN [k \in 1..(4 * ((n + 2) \div 3)) |-> char(k)]

\* base64.urlsafe_b64encode
urlsafe_b64encode(bs) == Replace(Replace(b64encode(bs), "+", "-"), "/", "_")

\* binascii.a2b_base64 (strict_mode off): [ok, bytes]; ok = FALSE models
\* binascii.Error.  Characters outside the alphabet are skipped.  With
\* quad_pos the number of sextets read modulo 4, a '=' that completes the
\* padding of the open quad (one '=' at quad_pos 3, the second of a run at
\* quad_pos 2) ends the decoding; sextets left over at the end of the text
\* are an error.  Each output byte takes its eight bits from two sextets.
a2b_base64(s) ==
  LET sig == SelectSeq(s, LAMBDA c : c = "=" \/ table_a2b(c) < 64)
      isData(i) == sig[i] # "="
      quad_pos(i) == Cardinality({ k \in 1..(i - 1) : isData(k) }) % 4
      pads(i) == i - (IF \E k \in 1..i : isData(k)
                      THEN CHOOSE k \in 1..i :
                             isData(k) /\ \A m \in (k + 1)..i : ~isData(m)
                      ELSE 0)
      stops == { i \in 1..Len(sig) :
                   ~isData(i) /\ quad_pos(i) >= 2 /\ quad_pos(i) + pads(i) >= 4 }
      stop == IF stops = {} THEN Len(sig) + 1
              ELSE CHOOSE i \in stops : \A k \in stops : i <= k
      data == SelectSeq(SubSeq(sig, 1, stop - 1), LAMBDA c : c # "=")
      v(j) == table_a2b(data[j])
      byte(i) ==
        LET j == (8 * (i - 1)) \div 6
            r == (8 * (i - 1)) % 6
        IN IF r = 0 THEN v(j + 1) * 4 + (v(j + 2) \div 16)
           ELSE IF r = 2 THEN (v(j + 1) % 16) * 16 + (v(j + 2) \div 4)
           ELSE (v(j + 1) % 4) * 64 + v(j + 2)
  IN IF stops = {} /\ Len(data) % 4 # 0
     THEN [ok |-> FALSE, bytes |-> << >>]
     ELSE [ok |-> TRUE, bytes |-> [i \in 1..((6 * Len(data)) \div 8) |-> byte(i)]]

\* base64.b64decode(s)
b64decode(s) == a2b_base64(s)

\* base64.urlsafe_b64decode(s)
urlsafe_b64decode(s) == b64decode(Replace(Replace(s, "-", "+"), "_", "/"))

\* data with the '=' padding a multiple of four needs
add_padding(data) ==
  LET missing_padding == Len(data) % 4
  IN IF missing_padding # 0
     THEN data \o Repeat("=", 4 - missing_padding) ELSE data

\* the fallback of _base64url_decode: first is what b64decode gave
decode_fallback(replaced, first) ==
  IF first.ok THEN first ELSE urlsafe_b64decode(replaced)

\* _base64url_decode of the padded text with '-' and '_' replaced
decode_padded(replaced) == decode_fallback(replaced, b64decode(replaced))

\* _base64url_decode that swallows the decoding error
base64url_decode_lenient(data) ==
  LET missing_padding == Len(data) % 4
      padded   == IF missing_padding # 0
                  THEN data \o Repeat("=", 4 - missing_padding) ELSE data
      replaced == Replace(Replace(padded, "-", "+"), "_", "/")
  IN [ok |-> TRUE, bytes |-> b64decode(replaced).bytes]

\* MeshtasticDecoder._base64url_decode: [ok, bytes]; ok = FALSE is the
\* ValueError "Failed to decode base64 data"
base64url_decode(data) ==
  decode_padded(Replace(Replace(add_padding(data), "-", "+"), "_", "/"))

\* _base64url_encode that keeps the padding
base64url_encode_keep_padding(data) == urlsafe_b64encode(data)

\* MeshtasticEncoder._base64url_encode
base64url_encode(data) == rstrip(urlsafe_b64encode(data), "=")

(***************************************************************************)
(* bytes.fromhex                                                           *)
(***************************************************************************)
\* value of a hexadecimal digit, 16 for any other character
HexVal(c) ==
  IF \A i \in 1..Len(Ascii) : Ascii[i] # c THEN 16
  ELSE LET o == Ord(c) IN
       IF o \in 48..57 THEN o - 48
       ELSE IF o \in 65..70 THEN o - 55
       ELSE IF o \in 97..102 THEN o - 87
       ELSE 16

RECURSIVE fromhex_loop(_, _, _)
\* bytes.fromhex: ASCII whitespace between byte pairs is skipped, anything
\* else that is not a pair of hexadecimal digits raises ValueError
fromhex_loop(s, i, out) ==
  IF i > Len(s) THEN [ok |-> TRUE, bytes |-> out]
  ELSE IF s[i] = " " THEN fromhex_loop(s, i + 1, out)
  ELSE IF i + 1 > Len(s) \/ HexVal(s[i]) = 16 \/ HexVal(s[i + 1]) = 16
  THEN [ok |-> FALSE, bytes |-> << >>]
  ELSE fromhex_loop(s, i + 2, Append(out, 16 * HexVal(s[i]) + HexVal(s[i + 1])))

fromhex(s) == fromhex_loop(s, 1, << >>)

(***************************************************************************)
(* urllib.parse.urlparse and parse_qs                                      *)
(***************************************************************************)
\* characters allowed in a URL scheme
scheme_chars(c) ==
  \/ (\E i \in 1..Len(Ascii) : Ascii[i] = c) /\
       LET o == Ord(c) IN o \in 65..90 \/ o \in 97..122 \/ o \in 48..57
  \/ c \in {"+", "-", "."}

isalpha(c) ==
  (\E i \in 1..Len(Ascii) : Ascii[i] = c) /\
    LET o == Ord(c) IN o \in 65..90 \/ o \in 97..122

RECURSIVE lstrip(_, _)
lstrip(s, c) == IF s # << >> /\ Head(s) = c THEN lstrip(Tail(s), c) ELSE s

\* urlsplit after the netloc: fragment, query and path
urlparse_path(scheme, netloc, url3) ==
  LET hash == Find(url3, "#")
      fragment == IF hash > 0 THEN SubSeq(url3, hash + 1, Len(url3)) ELSE << >>
      url4 == IF hash > 0 THEN SubSeq(url3, 1, hash - 1) ELSE url3
      qmark == Find(url4, "?")
      query == IF qmark > 0 THEN SubSeq(url4, qmark + 1, Len(url4)) ELSE << >>
      path == IF qmark > 0 THEN SubSeq(url4, 1, qmark - 1) ELSE url4
  IN [scheme |-> scheme, netloc |-> netloc, path |-> path,
      query |-> query, fragment |-> fragment]

\* urlsplit after the scheme: the netloc runs from '//' to the first of / ? #
urlparse_netloc(scheme, url2) ==
  LET hasNetloc == startswith(url2, << "/", "/" >>)
      delims == { IndexFrom(url2, c, 3) : c \in {"/", "?", "#"} } \ {0}
      delim == IF delims = {} THEN Len(url2) + 1
               ELSE CHOOSE d \in delims : \A e \in delims : d <= e
  IN urlparse_path(scheme,
       IF hasNetloc THEN SubSeq(url2, 3, delim - 1) ELSE << >>,
       IF hasNetloc THEN SubSeq(url2, delim, Len(url2)) ELSE url2)

\* urlsplit of the stripped text: the scheme ends at the first ':'
urlparse_scheme(url1) ==
  LET colon == Find(url1, ":")
      hasScheme == /\ colon > 1
                   /\ isalpha(url1[1])
                   /\ \A k \in 1..(colon - 1) : scheme_chars(url1[k])
  IN urlparse_netloc(
       IF hasScheme THEN SubSeq(url1, 1, colon - 1) ELSE << >>,
       IF hasScheme THEN SubSeq(url1, colon + 1, Len(url1)) ELSE url1)

\* urlparse(url): scheme, netloc, path, query and fragment of a URL
urlparse(url0) == urlparse_scheme(lstrip(url0, " "))

RECURSIVE split(_, _)
\* str.split(sep) for a one-character separator
split(s, sep) ==
  LET i == Find(s, sep)
  IN IF i = 0 THEN << s >>
     ELSE << SubSeq(s, 1, i - 1) >> \o split(SubSeq(s, i + 1, Len(s)), sep)

RECURSIVE unquote(_)
\* urllib.parse.unquote: %XX escapes are replaced by the character they name
unquote(s) ==
  LET escapes == { i \in 1..(Len(s) - 2) :
                     s[i] = "%" /\ HexVal(s[i + 1]) < 16 /\ HexVal(s[i + 2]) < 16 }
      first == CHOOSE i \in escapes : \A k \in escapes : i <= k
  IN IF escapes = {} THEN s
     ELSE SubSeq(s, 1, first - 1)
          \o << Chr(16 * HexVal(s[first + 1]) + HexVal(s[first + 2])) >>
          \o unquote(SubSeq(s, first + 3, Len(s)))

RECURSIVE parse_qsl(_)
\* urllib.parse.parse_qsl over the '&'-separated fields of a query: a field
\* without '=' or with a blank value is dropped (keep_blank_values is off)
parse_qsl(pairs) ==
  IF pairs = << >> THEN << >>
  ELSE LET name_value == Head(pairs)
           eq == Find(name_value, "=")
           name  == unquote(Replace(SubSeq(name_value, 1, eq - 1), "+", " "))
           value == unquote(Replace(SubSeq(name_value, eq + 1, Len(name_value)), "+", " "))
       IN (IF eq = 0 \/ eq = Len(name_value)
           THEN << >>
           ELSE << [name |-> name, value |-> value] >>)
          \o parse_qsl(Tail(pairs))

\* parse_qs(query)[key]: the values given for key, in order (<< >> when the
\* key is not in the mapping)
parse_qs(query, key) ==
  LET all == IF query = << >> THEN << >> ELSE parse_qsl(split(query, "&"))
  IN SelectSeq(all, LAMBDA p : p.name = key)

(***************************************************************************)
(* Protocol buffers: message shapes of meshtastic.protobuf                 *)
(* (channel_pb2, apponly_pb2, config_pb2, mesh_pb2, telemetry_pb2)         *)
(***************************************************************************)
\* a field descriptor: kind is one of varint, bool, enum, string, bytes,
\* fixed32, fixed64, msg; label is implicit, optional or repeated
F(num, name, kind, sub, label) ==
  [num |-> num, name |-> name, kind |-> kind, sub |-> sub, label |-> label]

Schemas ==
  [ ChannelSet |->
      << F(1, "settings", "msg", "ChannelSettings", "repeated"),
         F(2, "lora_config", "msg", "LoRaConfig", "optional") >>,
    Channel |->
      << F(1, "index", "varint", "", "implicit"),
         F(2, "settings", "msg", "ChannelSettings", "optional"),
         F(3, "role", "enum", "Role", "implicit") >>,
    ChannelSettings |->
      << F(1, "channel_num", "varint", "", "implicit"),
         F(2, "psk", "bytes", "", "implicit"),
         F(3, "name", "string", "", "implicit"),
         F(4, "id", "fixed32", "", "implicit"),
         F(5, "uplink_enabled", "bool", "", "implicit"),
         F(6, "downlink_enabled", "bool", "", "implicit"),
         F(7, "module_settings", "msg", "ModuleSettings", "optional") >>,
    ModuleSettings |->
      << F(1, "position_precision", "varint", "", "implicit"),
         F(2, "is_muted", "bool", "", "implicit") >>,
    LoRaConfig |->
      << F(1, "use_preset", "bool", "", "implicit"),
         F(2, "modem_preset", "enum", "ModemPreset", "implicit"),
         F(3, "bandwidth", "varint", "", "implicit"),
         F(4, "spread_factor", "varint", "", "implicit"),
         F(5, "coding_rate", "varint", "", "implicit"),
         F(6, "frequency_offset", "fixed32", "", "implicit"),
         F(7, "region", "enum", "RegionCode", "implicit"),
         F(8, "hop_limit", "varint", "", "implicit"),
         F(9, "tx_enabled", "bool", "", "implicit"),
         F(10, "tx_power", "varint", "", "implicit"),
         F(11, "channel_num", "varint", "", "implicit"),
         F(12, "override_duty_cycle", "bool", "", "implicit"),
         F(13, "sx126x_rx_boosted_gain", "bool", "", "implicit"),
         F(14, "override_frequency", "fixed32", "", "implicit"),
         F(15, "pa_fan_disabled", "bool", "", "implicit"),
         F(104, "ignore_mqtt", "bool", "", "implicit"),
         F(105, "config_ok_to_mqtt", "bool", "", "implicit") >>,
    NodeInfo |->
      << F(1, "num", "varint", "", "implicit"),
         F(2, "user", "msg", "User", "optional"),
         F(3, "position", "msg", "Position", "optional"),
         F(4, "snr", "fixed32", "", "implicit"),
         F(5, "last_heard", "fixed32", "", "implicit"),
         F(6, "device_metrics", "msg", "DeviceMetrics", "optional"),
         F(7, "channel", "varint", "", "implicit"),
         F(8, "via_mqtt", "bool", "", "implicit"),
         F(9, "hops_away", "varint", "", "optional"),
         F(10, "is_favorite", "bool", "", "implicit"),
         F(11, "is_ignored", "bool", "", "implicit"),
         F(12, "is_key_manually_verified", "bool", "", "implicit") >>,
    User |->
      << F(1, "id", "string", "", "implicit"),
         F(2, "long_name", "string", "", "implicit"),
         F(3, "short_name", "string", "", "implicit"),
         F(4, "macaddr", "bytes", "", "implicit"),
         F(5, "hw_model", "enum", "HardwareModel", "implicit"),
         F(6, "is_licensed", "bool", "", "implicit"),
         F(7, "role", "enum", "DeviceRole", "implicit"),
         F(8, "public_key", "bytes", "", "implicit"),
         F(9, "is_unmessagable", "bool", "", "optional") >>,
    Position |->
      << F(1, "latitude_i", "fixed32", "", "optional"),
         F(2, "longitude_i", "fixed32", "", "optional"),
         F(3, "altitude", "varint", "", "optional"),
         F(4, "time", "fixed32", "", "implicit"),
         F(5, "location_source", "enum", "LocSource", "implicit"),
         F(6, "altitude_source", "enum", "AltSource", "implicit"),
         F(7, "timestamp", "fixed32", "", "implicit"),
         F(8, "timestamp_millis_adjust", "varint", "", "implicit"),
         F(9, "altitude_hae", "varint", "", "optional"),
         F(10, "altitude_geoidal_separation", "varint", "", "optional"),
         F(11, "PDOP", "varint", "", "implicit"),
         F(12, "HDOP", "varint", "", "implicit"),
         F(13, "VDOP", "varint", "", "implicit"),
         F(14, "gps_accuracy", "varint", "", "implicit"),
         F(15, "ground_speed", "varint", "", "optional"),
         F(16, "ground_track", "varint", "", "optional"),
         F(17, "fix_quality", "varint", "", "implicit"),
         F(18, "fix_type", "varint", "", "implicit"),
         F(19, "sats_in_view", "varint", "", "implicit"),
         F(20, "sensor_id", "varint", "", "implicit"),
         F(21, "next_update", "varint", "", "implicit"),
         F(22, "seq_number", "varint", "", "implicit"),
         F(23, "precision_bits", "varint", "", "implicit") >>,
    DeviceMetrics |->
      << F(1, "battery_level", "varint", "", "optional"),
         F(2, "voltage", "fixed32", "", "optional"),
         F(3, "channel_utilization", "fixed32", "", "optional"),
         F(4, "air_util_tx", "fixed32", "", "optional"),
         F(5, "uptime_seconds", "varint", "", "optional") >>,
    MyNodeInfo |->
      << F(1, "my_node_num", "varint", "", "implicit"),
         F(8, "reboot_count", "varint", "", "implicit"),
         F(11, "min_app_version", "varint", "", "implicit"),
         F(12, "device_id", "bytes", "", "implicit"),
         F(13, "pio_env", "string", "", "implicit"),
         F(14, "firmware_edition", "enum", "FirmwareEdition", "implicit"),
         F(15, "nodedb_count", "varint", "", "implicit") >>,
    MeshPacket |->
      << F(1, "from", "fixed32", "", "implicit"),
         F(2, "to", "fixed32", "", "implicit"),
         F(3, "channel", "varint", "", "implicit"),
         F(4, "decoded", "msg", "Data", "optional"),
         F(5, "encrypted", "bytes", "", "optional"),
         F(6, "id", "fixed32", "", "implicit"),
         F(7, "rx_time", "fixed32", "", "implicit"),
         F(8, "rx_snr", "fixed32", "", "implicit"),
         F(9, "hop_limit", "varint", "", "implicit"),
         F(10, "want_ack", "bool", "", "implicit"),
         F(11, "priority", "enum", "Priority", "implicit"),
         F(12, "rx_rssi", "varint", "", "implicit"),
         F(13, "delayed", "enum", "Delayed", "implicit"),
         F(14, "via_mqtt", "bool", "", "implicit"),
         F(15, "hop_start", "varint", "", "implicit"),
         F(16, "public_key", "bytes", "", "implicit"),
         F(17, "pki_encrypted", "bool", "", "implicit"),
         F(18, "next_hop", "varint", "", "implicit"),
         F(19, "relay_node", "varint", "", "implicit"),
         F(20, "tx_after", "varint", "", "implicit") >>,
    Data |->
      << F(1, "portnum", "enum", "PortNum", "implicit"),
         F(2, "payload", "bytes", "", "implicit"),
         F(3, "want_response", "bool", "", "implicit"),
         F(4, "dest", "fixed32", "", "implicit"),
         F(5, "source", "fixed32", "", "implicit"),
         F(6, "request_id", "fixed32", "", "implicit"),
         F(7, "reply_id", "fixed32", "", "implicit"),
         F(8, "emoji", "fixed32", "", "implicit"),
         F(9, "bitfield", "varint", "", "optional") >> ]

\* names of the values of the enumerations the encoder writes
EnumNames ==
  [ Role |-> << "DISABLED", "PRIMARY", "SECONDARY" >>,
    ModemPreset |-> << "LONG_FAST", "LONG_SLOW", "VERY_LONG_SLOW", "MEDIUM_SLOW",
                       "MEDIUM_FAST", "SHORT_SLOW", "SHORT_FAST", "LONG_MODERATE",
                       "SHORT_TURBO" >>,
    RegionCode |-> << "UNSET", "US", "EU_433", "EU_868", "CN", "JP", "ANZ", "KR",
                      "TW", "RU", "IN", "NZ_865", "TH", "LORA_24", "UA_433",
                      "UA_868" >> ]

\* the wire type a field kind is written with
WireType(kind) ==
  CASE kind \in {"varint", "bool", "enum"} -> 0
    [] kind = "fixed64" -> 1
    [] kind \in {"string", "bytes", "msg"} -> 2
    [] kind = "fixed32" -> 5

FieldNames(schema) == { Schemas[schema][i].name : i \in 1..Len(Schemas[schema]) }

Desc(schema, name) ==
  Schemas[schema][CHOOSE i \in 1..Len(Schemas[schema]) : Schemas[schema][i].name = name]

\* a field of a message object: has is wire/explicit presence, n the value of
\* a varint, bool or enum field, b the bytes of a string, bytes or fixed
\* field, ms the sub-messages of a message field (one when singular)
Entry(has, n, b, ms) == [has |-> has, n |-> n, b |-> b, ms |-> ms]

NoEntry == Entry(FALSE, 0, << >>, << >>)

\* a freshly constructed message object: every field unset
NewMessage(schema) == [name \in FieldNames(schema) |-> NoEntry]

\* msg.<field> for a singular message field (the default instance when unset)
SubMessage(schema, msg, field) ==
  IF Len(msg[field].ms) = 0 THEN NewMessage(Desc(schema, field).sub)
  ELSE msg[field].ms[1]

(***************************************************************************)
(* Protocol buffers: wire format                                           *)
(***************************************************************************)
RECURSIVE ReadVarint(_, _, _)
\* a base-128 varint at pos: [ok, val, next]
ReadVarint(bs, pos, count) ==
  IF pos > Len(bs) \/ count > 10
  THEN [ok |-> FALSE, val |-> 0, next |-> pos]
  ELSE IF bs[pos] < 128
  THEN [ok |-> TRUE, val |-> bs[pos], next |-> pos + 1]
  ELSE LET r == ReadVarint(bs, pos + 1, count + 1)
       IN [ok |-> r.ok, val |-> (bs[pos] - 128) + 128 * r.val, next |-> r.next]

RECURSIVE WriteVarint(_)
WriteVarint(n) ==
  IF n < 128 THEN << n >> ELSE << 128 + (n % 128) >> \o WriteVarint(n \div 128)

WireFail == [ok |-> FALSE, fields |-> << >>, next |-> 0]

\* prepend a wire field to the rest of the message
WireCons(f, rest) ==
  IF rest.ok THEN [ok |-> TRUE, fields |-> << f >> \o rest.fields, next |-> rest.next]
  ELSE WireFail

RECURSIVE WireFields(_, _, _)
\* the (number, wire type, value) triples of a serialized message, read from
\* pos; group is the number of the enclosing group (0 at top level).  A
\* truncated value, field number 0, wire types 6 and 7 and an unmatched
\* end-group tag are DecodeError.
WireFields(bs, pos, group) ==
  IF pos > Len(bs) THEN [ok |-> group = 0, fields |-> << >>, next |-> pos]
  ELSE
  LET tag == ReadVarint(bs, pos, 1)
      num == tag.val \div 8
      wt  == tag.val % 8
  IN IF ~tag.ok \/ num = 0 THEN WireFail
     ELSE IF wt = 0
     THEN LET v == ReadVarint(bs, tag.next, 1)
          IN IF ~v.ok THEN WireFail
             ELSE WireCons([num |-> num, wt |-> 0, n |-> v.val, b |-> << >>],
                           WireFields(bs, v.next, group))
     ELSE IF wt = 1 \/ wt = 5
     THEN LET width == IF wt = 1 THEN 8 ELSE 4
          IN IF tag.next + width - 1 > Len(bs) THEN WireFail
             ELSE WireCons([num |-> num, wt |-> wt, n |-> 0,
                            b |-> SubSeq(bs, tag.next, tag.next + width - 1)],
                           WireFields(bs, tag.next + width, group))
     ELSE IF wt = 2
     THEN LET len == ReadVarint(bs, tag.next, 1)
          IN IF ~len.ok \/ len.next + len.val - 1 > Len(bs) THEN WireFail
             ELSE WireCons([num |-> num, wt |-> 2, n |-> 0,
                            b |-> SubSeq(bs, len.next, len.next + len.val - 1)],
                           WireFields(bs, len.next + len.val, group))
     ELSE IF wt = 3
     THEN LET inner == WireFields(bs, tag.next, num)
          IN IF ~inner.ok THEN WireFail
             ELSE WireCons([num |-> num, wt |-> 3, n |-> 0, b |-> << >>],
                           WireFields(bs, inner.next, group))
     ELSE IF wt = 4 /\ group # 0 /\ num = group
     THEN [ok |-> TRUE, fields |-> << >>, next |-> tag.next]
     ELSE WireFail

RECURSIVE utf8_valid(_)
\* whether bytes are well-formed UTF-8 (a string field that is not fails
\* the parse)
utf8_valid(bs) ==
  IF bs = << >> THEN TRUE
  ELSE LET b == bs[1]
           cont(i) == i <= Len(bs) /\ bs[i] \in 128..191
       IN IF b < 128 THEN utf8_valid(Tail(bs))
          ELSE IF b \in 194..223
          THEN cont(2) /\ utf8_valid(SubSeq(bs, 3, Len(bs)))
          ELSE IF b \in 224..239
          THEN /\ cont(2) /\ cont(3)
               /\ (b = 224 => bs[2] >= 160)
               /\ (b = 237 => bs[2] <= 159)
               /\ utf8_valid(SubSeq(bs, 4, Len(bs)))
          ELSE IF b \in 240..244
          THEN /\ cont(2) /\ cont(3) /\ cont(4)
               /\ (b = 240 => bs[2] >= 144)
               /\ (b = 244 => bs[2] <= 143)
               /\ utf8_valid(SubSeq(bs, 5, Len(bs)))
          ELSE FALSE

RECURSIVE utf8_decode(_)
\* the text of well-formed UTF-8 bytes
utf8_decode(bs) ==
  IF bs = << >> THEN << >>
  ELSE LET b == bs[1]
       IN IF b < 128 THEN << Chr(b) >> \o utf8_decode(Tail(bs))
          ELSE IF b < 224
          THEN << Chr((b - 192) * 64 + (bs[2] - 128)) >>
               \o utf8_decode(SubSeq(bs, 3, Len(bs)))
          ELSE IF b < 240
          THEN << Chr((b - 224) * 4096 + (bs[2] - 128) * 64 + (bs[3] - 128)) >>
               \o utf8_decode(SubSeq(bs, 4, Len(bs)))
          ELSE << Chr((b - 240) * 262144 + (bs[2] - 128) * 4096
                      + (bs[3] - 128) * 64 + (bs[4] - 128)) >>
               \o utf8_decode(SubSeq(bs, 5, Len(bs)))

RECURSIVE Concat(_)
\* the concatenation of the byte strings of wire fields
Concat(fs) == IF fs = << >> THEN << >> ELSE Head(fs).b \o Concat(Tail(fs))

RECURSIVE ParseFromString(_, _)
RECURSIVE MergeFields(_, _)
\* Message.ParseFromString for a message of the given shape: [ok, msg];
\* ok = FALSE is DecodeError.
ParseFromString(schema, bs) == MergeFields(schema, WireFields(bs, 1, 0))

\* the message the wire fields w give.  A field whose wire type does not
\* match the declared one is an unknown field and is skipped; of a singular
\* scalar the last occurrence wins; occurrences of a singular message field
\* are merged.
MergeFields(schema, w) ==
  LET descs == Schemas[schema]
      occ(d) == SelectSeq(w.fields,
                  LAMBDA f : f.num = d.num /\ f.wt = WireType(d.kind))
      last(d) == occ(d)[Len(occ(d))]
      subs(d) == IF d.label = "repeated"
                 THEN [i \in 1..Len(occ(d)) |-> ParseFromString(d.sub, occ(d)[i].b)]
                 ELSE << ParseFromString(d.sub, Concat(occ(d))) >>
      field(d) ==
        IF occ(d) = << >> THEN [ok |-> TRUE, e |-> NoEntry]
        ELSE IF d.kind = "msg"
        THEN [ok |-> \A i \in 1..Len(subs(d)) : subs(d)[i].ok,
              e  |-> Entry(TRUE, 0, << >>,
                           [i \in 1..Len(subs(d)) |-> subs(d)[i].msg])]
        ELSE IF d.kind = "string"
        THEN [ok |-> \A i \in 1..Len(occ(d)) : utf8_valid(occ(d)[i].b),
              e  |-> Entry(TRUE, 0, last(d).b, << >>)]
        ELSE IF d.kind = "bool"
        THEN [ok |-> TRUE,
              e  |-> Entry(TRUE, IF last(d).n # 0 THEN 1 ELSE 0, << >>, << >>)]
        ELSE [ok |-> TRUE, e |-> Entry(TRUE, last(d).n, last(d).b, << >>)]
      parsed == [i \in 1..Len(descs) |-> field(descs[i])]
      index(name) == CHOOSE i \in 1..Len(descs) : descs[i].name = name
  IN IF ~w.ok \/ \E i \in 1..Len(descs) : ~parsed[i].ok
     THEN [ok |-> FALSE, msg |-> NewMessage(schema)]
     ELSE [ok |-> TRUE,
           msg |-> [name \in FieldNames(schema) |-> parsed[index(name)].e]]

\* whether a field is listed by ListFields: a message or optional field when
\* set, a repeated field when non-empty, an implicit-presence scalar when it
\* differs from its default
IsSet(d, e) ==
  IF d.kind = "msg" THEN Len(e.ms) > 0
  ELSE IF d.label = "optional" THEN e.has
  ELSE IF d.kind \in {"string", "bytes"} THEN e.b # << >>
  ELSE IF d.kind \in {"fixed32", "fixed64"} THEN \E i \in 1..Len(e.b) : e.b[i] # 0
  ELSE e.n # 0

RECURSIVE SerializeToString(_, _)
RECURSIVE SerializeFields(_, _, _)
\* Message.SerializeToString: set fields in field-number order
SerializeToString(schema, msg) == SerializeFields(schema, msg, 1)

SerializeFields(schema, msg, i) ==
  IF i > Len(Schemas[schema]) THEN << >>
  ELSE
  LET d   == Schemas[schema][i]
      e   == msg[d.name]
      tag == WriteVarint(d.num * 8 + WireType(d.kind))
      sub(k) == SerializeToString(d.sub, e.ms[k])
      RECURSIVE subsFrom(_)
      subsFrom(k) == IF k > Len(e.ms) THEN << >>
                     ELSE tag \o WriteVarint(Len(sub(k))) \o sub(k) \o subsFrom(k + 1)
      this == IF ~IsSet(d, e) THEN << >>
              ELSE IF d.kind = "msg" THEN subsFrom(1)
              ELSE IF d.kind \in {"string", "bytes"}
              THEN tag \o WriteVarint(Len(e.b)) \o e.b
              ELSE IF d.kind \in {"fixed32", "fixed64"} THEN tag \o e.b
              ELSE tag \o WriteVarint(e.n)
  IN this \o SerializeFields(schema, msg, i + 1)

(***************************************************************************)
(* google.protobuf.json_format.MessageToDict                               *)
(* A Python value is a tagged record: num, bool, str (a str kept as its    *)
(* text), name (a str that is only looked up or compared as a whole),      *)
(* fixed (the four bytes of a fixed32 or float), dict (a function from     *)
(* keys to values), list, none.                                            *)
(***************************************************************************)
None == [t |-> "none"]

Str(text) == [t |-> "str", s |-> text]

Name(e) == [t |-> "name", e |-> e]

Num(n) == [t |-> "num", n |-> n]

Bool(v) == [t |-> "bool", v |-> v]

Dict(d) == [t |-> "dict", d |-> d]

\* bool(value)
Truthy(j) ==
  CASE j.t = "none" -> FALSE
    [] j.t = "num" -> j.n # 0
    [] j.t = "bool" -> j.v
    [] j.t = "str" -> j.s # << >>
    [] j.t = "name" -> j.e # ""
    [] j.t = "fixed" -> \E i \in 1..Len(j.b) : j.b[i] # 0
    [] j.t = "dict" -> DOMAIN j.d # {}
    [] j.t = "list" -> Len(j.l) > 0

\* dict.get(key)
Get(j, key) == IF key \in DOMAIN j.d THEN j.d[key] ELSE None

RECURSIVE MessageToDict(_, _)
\* MessageToDict(msg, preserving_proto_field_name=True): the set fields under
\* their proto names, enums by name, bytes as base64 text
MessageToDict(schema, msg) ==
  LET value(d, e) ==
        CASE d.kind = "msg" /\ d.label = "repeated" ->
               [t |-> "list",
                l |-> [i \in 1..Len(e.ms) |-> MessageToDict(d.sub, e.ms[i])]]
          [] d.kind = "msg" /\ d.label # "repeated" ->
               MessageToDict(d.sub, e.ms[1])
          [] d.kind = "string" -> Str(utf8_decode(e.b))
          [] d.kind = "bytes" -> Str(b64encode(e.b))
          [] d.kind = "bool" -> Bool(e.n # 0)
          [] d.kind = "enum" ->
               IF d.sub \in DOMAIN EnumNames /\ e.n < Len(EnumNames[d.sub])
               THEN Name(EnumNames[d.sub][e.n + 1])
               ELSE Num(e.n)
          [] d.kind \in {"fixed32", "fixed64"} -> [t |-> "fixed", b |-> e.b]
          [] OTHER -> Num(e.n)
      keys == { name \in FieldNames(schema) : IsSet(Desc(schema, name), msg[name]) }
  IN Dict([name \in keys |-> value(Desc(schema, name), msg[name])])

(***************************************************************************)
(* MeshtasticDecoder                                                       *)
(***************************************************************************)
\* NodeInfo should have node number or user info
validate_node_data(data) ==
  Truthy(Get(data, "num")) \/ Truthy(Get(data, "user"))

\* User should have id, long_name, or short_name
validate_user_data(data) ==
  Truthy(Get(data, "id")) \/ Truthy(Get(data, "long_name"))
    \/ Truthy(Get(data, "short_name"))

\* Position should have latitude, longitude, or altitude
validate_position_data(data) ==
  Truthy(Get(data, "latitude_i")) \/ Truthy(Get(data, "longitude_i"))
    \/ Truthy(Get(data, "altitude"))

\* the truth test of the MyNodeInfo mapping
validate_my_node_data(data) == Truthy(data)

\* ChannelSet should have settings or channels
validate_channel_set_data(data) ==
  Truthy(Get(data, "settings")) \/ Truthy(Get(data, "channels"))
    \/ Truthy(Get(data, "lora_config"))

\* a Channel predicate that tests all three fields for truth
validate_channel_data_truthy(data) ==
  Truthy(Get(data, "settings")) \/ Truthy(Get(data, "role"))
    \/ Truthy(Get(data, "index"))

\* Channel should have settings, role, or index
validate_channel_data(data) ==
  Truthy(Get(data, "settings")) \/ Get(data, "role") # None
    \/ Get(data, "index") # None

\* the plausibility predicate paired with each candidate
Validate(schema, data) ==
  CASE schema = "NodeInfo" -> validate_node_data(data)
    [] schema = "User" -> validate_user_data(data)
    [] schema = "Position" -> validate_position_data(data)
    [] schema = "MyNodeInfo" -> validate_my_node_data(data)
    [] schema = "ChannelSet" -> validate_channel_set_data(data)
    [] schema = "Channel" -> validate_channel_data(data)

\* the candidates of _try_node_decoders, in the order of its try blocks
NodeCandidates ==
  << [schema |-> "NodeInfo", key |-> "Node", failed |-> "NodeInfo failed"],
     [schema |-> "User", key |-> "User", failed |-> "User failed"],
     [schema |-> "Position", key |-> "Position", failed |-> "Position failed"],
     [schema |-> "MyNodeInfo", key |-> "MyNodeInfo", failed |-> "MyNodeInfo failed"] >>

\* the channel family with the single Channel tried first
ChannelCandidates_channel_first ==
  << [schema |-> "Channel", key |-> "Config", failed |-> "SingleChannel failed"],
     [schema |-> "ChannelSet", key |-> "Config", failed |-> "ChannelSet failed"] >>

\* the candidates of _try_channel_decoders, in the order of its try blocks
ChannelCandidates ==
  << [schema |-> "ChannelSet", key |-> "Config", failed |-> "ChannelSet failed"],
     [schema |-> "Channel", key |-> "Config", failed |-> "SingleChannel failed"] >>

\* the state a decode call carries through its candidates: the match (if any),
\* the attempt log and the shapes ParseFromString was called for
NoMatch(decode_attempts, attempted) ==
  [found |-> FALSE, result |-> << >>,
   decode_attempts |-> decode_attempts, attempted |-> attempted]

\* the end of a try block whose parse succeeded: the converted message and
\* whether its plausibility predicate accepts it
checked(c, as_dict) ==
  [raised |-> FALSE, accepted |-> Validate(c.schema, as_dict), data |-> as_dict]

\* a try block after ParseFromString: DecodeError goes to the except branch
converted(c, parsed) ==
  IF ~parsed.ok THEN [raised |-> TRUE, accepted |-> FALSE, data |-> None]
  ELSE checked(c, MessageToDict(c.schema, parsed.msg))

\* one try block: parse, convert, validate
try_block(c, decoded_data) ==
  converted(c, ParseFromString(c.schema, decoded_data))

RECURSIVE TryCandidates(_, _, _, _, _)
RECURSIVE after_block(_, _, _, _, _, _)
\* the try blocks of a family from the i-th on: return the match, log a
\* raised error, fall through to the next block otherwise
TryCandidates(cands, i, decoded_data, url, st) ==
  IF i > Len(cands) THEN st
  ELSE after_block(cands, i, decoded_data, url, st,
                   try_block(cands[i], decoded_data))

\* what follows the i-th try block, given its outcome r
after_block(cands, i, decoded_data, url, st, r) ==
  IF r.raised
  THEN TryCandidates(cands, i + 1, decoded_data, url,
         NoMatch(Append(st.decode_attempts, cands[i].failed),
                 Append(st.attempted, cands[i].schema)))
  ELSE IF r.accepted
  THEN [found |-> TRUE,
        result |-> ("success" :> TRUE) @@ ("url" :> url) @@ (cands[i].key :> r.data),
        decode_attempts |-> st.decode_attempts,
        attempted |-> Append(st.attempted, cands[i].schema)]
  ELSE TryCandidates(cands, i + 1, decoded_data, url,
         NoMatch(st.decode_attempts, Append(st.attempted, cands[i].schema)))

\* MeshtasticDecoder._try_node_decoders
try_node_decoders(decoded_data, url, st) ==
  TryCandidates(NodeCandidates, 1, decoded_data, url, st)

\* MeshtasticDecoder._try_channel_decoders
try_channel_decoders(decoded_data, url, st) ==
  TryCandidates(ChannelCandidates, 1, decoded_data, url, st)

\* a MeshPacket block whose except branch logs nothing
mesh_packet_block_silent(url, st, parsed) ==
  IF parsed.ok
  THEN [found |-> TRUE,
        result |-> [success |-> TRUE, url |-> url,
                    MeshPacket |-> MessageToDict("MeshPacket", parsed.msg)],
        decode_attempts |-> st.decode_attempts,
        attempted |-> Append(st.attempted, "MeshPacket")]
  ELSE NoMatch(st.decode_attempts, Append(st.attempted, "MeshPacket"))

\* the MeshPacket block after ParseFromString: accepted when it parses
mesh_packet_block(url, st, parsed) ==
  IF parsed.ok
  THEN [found |-> TRUE,
        result |-> [success |-> TRUE, url |-> url,
                    MeshPacket |-> MessageToDict("MeshPacket", parsed.msg)],
        decode_attempts |-> st.decode_attempts,
        attempted |-> Append(st.attempted, "MeshPacket")]
  ELSE NoMatch(Append(st.decode_attempts, "MeshPacket failed"),
               Append(st.attempted, "MeshPacket"))

\* the last resort of decode_channel_url: MeshPacket
try_mesh_packet(decoded_data, url, st) ==
  mesh_packet_block(url, st, ParseFromString("MeshPacket", decoded_data))

\* the family tried first: the node family for a node URL
first_family(is_node_url, decoded_data, url) ==
  IF is_node_url
  THEN try_node_decoders(decoded_data, url, NoMatch(<< >>, << >>))
  ELSE try_channel_decoders(decoded_data, url, NoMatch(<< >>, << >>))

\* the other family, tried when the first gave no match
second_family(is_node_url, decoded_data, url, st) ==
  IF st.found THEN st
  ELSE IF is_node_url THEN try_channel_decoders(decoded_data, url, st)
  ELSE try_node_decoders(decoded_data, url, st)

\* MeshPacket tried whether or not a family gave a match
last_resort_always(decoded_data, url, st) ==
  try_mesh_packet(decoded_data, url, st)

\* MeshPacket, tried when neither family gave a match
last_resort(decoded_data, url, st) ==
  IF st.found THEN st ELSE try_mesh_packet(decoded_data, url, st)

\* family order that ignores the URL type
try_families_channel_first(is_node_url, decoded_data, url) ==
  last_resort(decoded_data, url,
    second_family(FALSE, decoded_data, url,
      first_family(FALSE, decoded_data, url)))

\* the families in the order the URL type selects
try_families(is_node_url, decoded_data, url) ==
  last_resort(decoded_data, url,
    second_family(is_node_url, decoded_data, url,
      first_family(is_node_url, decoded_data, url)))

\* the fragment, else the first of the values of c
fragment_or_c(fragment, c_values) ==
  IF fragment # << >>
  THEN [ok |-> TRUE, data |-> fragment]
  ELSE IF c_values # << >>
  THEN [ok |-> TRUE, data |-> c_values[1].value]
  ELSE [ok |-> FALSE, data |-> << >>]

\* payload extraction that looks at the query parameter first
extract_encoded_data_query_first(parsed_url) ==
  LET c_values == parse_qs(parsed_url.query, << "c" >>)
  IN IF c_values # << >>
     THEN [ok |-> TRUE, data |-> c_values[1].value]
     ELSE IF parsed_url.fragment # << >>
     THEN [ok |-> TRUE, data |-> parsed_url.fragment]
     ELSE [ok |-> FALSE, data |-> << >>]

\* the payload text of a parsed URL: the fragment when it is not empty, else
\* the first value of the query parameter c: [ok, data]; ok = FALSE is the
\* ValueError "No encoded channel data found in URL"
extract_encoded_data(parsed_url) ==
  fragment_or_c(parsed_url.fragment, parse_qs(parsed_url.query, << "c" >>))

\* a decode_channel_url without the except branch: the error reaches the caller
decode_uncaught(url, encoded_data, error) ==
  [result |-> [raised |-> error],
   encoded_data |-> encoded_data,
   decoded_data |-> << >>, decode_attempts |-> << >>, attempted |-> << >>]

\* the except branch of decode_channel_url
decode_raised(url, encoded_data, error) ==
  [result |-> [success |-> FALSE, error |-> error, url |-> url],
   encoded_data |-> encoded_data,
   decoded_data |-> << >>, decode_attempts |-> << >>, attempted |-> << >>]

\* the return of decode_channel_url once the candidates have been tried
decode_return(url, encoded_data, decoded_data, st) ==
  [result |->
     IF st.found THEN st.result
     ELSE [success |-> FALSE,
           error |-> "Unable to decode protobuf data",
           decode_attempts |-> st.decode_attempts,
           raw_data |-> [url |-> url,
                         encoded_data |-> encoded_data,
                         encoded_length |-> Len(encoded_data),
                         decoded_length |-> Len(decoded_data),
                         raw_bytes |-> decoded_data]],
   encoded_data |-> encoded_data,
   decoded_data |-> decoded_data,
   decode_attempts |-> st.decode_attempts,
   attempted |-> st.attempted]

\* decode_channel_url from the base64 decoding on
decode_payload(url, encoded_data, decoded) ==
  IF ~decoded.ok
  THEN decode_raised(url, encoded_data, "Failed to decode base64 data")
  ELSE decode_return(url, encoded_data, decoded.bytes,
         try_families(Contains(url, << "/", "v", "/" >>), decoded.bytes, url))

\* decode_channel_url from the payload extraction on
decode_extracted(url, extracted) ==
  IF ~extracted.ok
  THEN decode_raised(url, extracted.data, "No encoded channel data found in URL")
  ELSE decode_payload(url, extracted.data, base64url_decode(extracted.data))

\* MeshtasticDecoder.decode_channel_url.  result is the returned mapping; the
\* other fields are the locals of the call (attempted lists the shapes a
\* parse was run for).
decode_channel_url(url) ==
  decode_extracted(url, extract_encoded_data(urlparse(url)))

(***************************************************************************)
(* The command-line decoder                                                *)
(***************************************************************************)
\* display_summary(result): what it prints, all of it on standard output
display_summary(result) ==
  IF ~result.success
  THEN [headline |-> "Decoding failed",
        error |-> IF "error" \in DOMAIN result THEN result.error
                  ELSE "Unknown error",
        debug |-> "raw_data" \in DOMAIN result]
  ELSE [headline |-> "Successfully decoded Meshtastic URL",
        section |-> IF "Config" \in DOMAIN result THEN "Config"
                    ELSE IF "Node" \in DOMAIN result THEN "Node"
                    ELSE IF "User" \in DOMAIN result THEN "User"
                    ELSE IF "Position" \in DOMAIN result THEN "Position"
                    ELSE IF "MyNodeInfo" \in DOMAIN result THEN "MyNodeInfo"
                    ELSE "No decoded data found"]

\* the body of main once decode_channel_url has come back: call is
\* [raised, error, result].  Only a raised exception writes to the
\* diagnostic stream and exits 1; otherwise main prints the mapping and
\* falls off its end, which is exit status 0.
main_after_decode(call, summary, pretty) ==
  IF call.raised
  THEN [exit_code |-> 1,
        stdout |-> << >>,
        stderr |-> << [text |-> "Error", error |-> call.error] >>]
  ELSE [exit_code |-> 0,
        stdout |-> << IF summary
                      THEN [format |-> "summary", summary |-> display_summary(call.result)]
                      ELSE [format |-> "json", indent |-> IF pretty THEN 2 ELSE 0,
                            value |-> call.result] >>,
        stderr |-> << >>]

\* decode.py main(): the decoder call at its line 49; decode_channel_url
\* catches every exception itself, so the call always comes back
main(url, summary, pretty) ==
  main_after_decode([raised |-> FALSE, error |-> "",
                     result |-> decode_channel_url(url).result],
                    summary, pretty)

(***************************************************************************)
(* Python coercions the encoder applies to its input values                *)
(***************************************************************************)
RECURSIVE digits_value(_, _)
\* the value of a string of decimal digits, -1 when it is not one
digits_value(s, acc) ==
  IF s = << >> THEN acc
  ELSE IF HexVal(Head(s)) > 9 THEN -1
  ELSE digits_value(Tail(s), 10 * acc + HexVal(Head(s)))

\* a coercion that takes 0 for what it cannot read
py_int_or_zero(j) ==
  CASE j.t = "num" -> [ok |-> j.n >= 0, n |-> j.n]
    [] j.t = "bool" -> [ok |-> TRUE, n |-> IF j.v THEN 1 ELSE 0]
    [] OTHER -> [ok |-> TRUE, n |-> 0]

\* int(value) stored in an unsigned or non-negative integer field:
\* [ok, n]; ok = FALSE is the ValueError or TypeError raised
py_int(j) ==
  CASE j.t = "num" -> [ok |-> j.n >= 0, n |-> j.n]
    [] j.t = "bool" -> [ok |-> TRUE, n |-> IF j.v THEN 1 ELSE 0]
    [] j.t = "str" -> IF j.s # << >> /\ digits_value(j.s, 0) >= 0
                      THEN [ok |-> TRUE, n |-> digits_value(j.s, 0)]
                      ELSE [ok |-> FALSE, n |-> 0]
    [] OTHER -> [ok |-> FALSE, n |-> 0]

RECURSIVE ilog2(_)
ilog2(n) == IF n < 2 THEN 0 ELSE 1 + ilog2(n \div 2)

RECURSIVE pow2(_)
pow2(k) == IF k = 0 THEN 1 ELSE 2 * pow2(k - 1)

\* the four little-endian bytes of the IEEE-754 single of an integer
\* 0 <= n < 2^24
float32_bytes(n) ==
  IF n = 0 THEN << 0, 0, 0, 0 >>
  ELSE LET e == ilog2(n)
           bits == (e + 127) * pow2(23) + (n - pow2(e)) * pow2(23 - e)
       IN << bits % 256, (bits \div 256) % 256, (bits \div 65536) % 256,
             bits \div 16777216 >>

\* float(value) stored in a float field: [ok, b]
py_float(j) ==
  LET i == py_int(j)
  IN IF i.ok THEN [ok |-> TRUE, b |-> float32_bytes(i.n)]
     ELSE [ok |-> FALSE, b |-> << >>]

(***************************************************************************)
(* MeshtasticEncoder                                                       *)
(***************************************************************************)
\* the longest raw UTF-8 key kept by the fallback
PskFallbackLimit == 32

\* whether a value can be a dictionary key: looking up a mapping or a list
\* raises TypeError (unhashable type)
Hashable(j) == j.t \notin { "dict", "list" }

\* role_map.get(channel_data.get('role', 'secondary'), SECONDARY)
role_map(channel_data) ==
  LET role == IF "role" \in DOMAIN channel_data THEN channel_data["role"]
              ELSE Name("secondary")
  IN IF role = Name("primary") THEN 1
     ELSE IF role = Name("disabled") THEN 0
     ELSE 2

\* psk_str.encode('utf-8')[:32]
psk_fallback(raw) ==
  SubSeq(raw, 1, IF Len(raw) < PskFallbackLimit THEN Len(raw)
                 ELSE PskFallbackLimit)

\* the branch a key string takes, given what bytes.fromhex and b64decode
\* make of it
psk_bytes(psk_str, hex, b64, fallback) ==
  IF startswith(psk_str, << "0", "x" >>)
  THEN IF hex.ok THEN hex.bytes ELSE fallback
  ELSE IF b64.ok THEN b64.bytes ELSE fallback

\* PSK resolution that tries base64 before the 0x prefix
resolve_psk_base64_first(psk_str) ==
  LET hex == fromhex(SubSeq(psk_str, 3, Len(psk_str)))
      b64 == b64decode(psk_str)
      raw == utf8_encode(psk_str)
      fallback == SubSeq(raw, 1, IF Len(raw) < PskFallbackLimit THEN Len(raw)
                                 ELSE PskFallbackLimit)
  IN IF b64.ok THEN b64.bytes
     ELSE IF startswith(psk_str, << "0", "x" >>) /\ hex.ok THEN hex.bytes
     ELSE fallback

\* the PSK bytes of a key string: 0x-prefixed hex, else base64; when the
\* chosen form raises, the first 32 bytes of the UTF-8 text
resolve_psk(psk_str) ==
  psk_bytes(psk_str, fromhex(SubSeq(psk_str, 3, Len(psk_str))),
            b64decode(psk_str), psk_fallback(utf8_encode(psk_str)))

\* a ModuleSettings block that takes a zero position_precision as not given
build_module_settings_truthy(channel_data) ==
  LET given == "module_settings" \in DOMAIN channel_data
                 /\ channel_data["module_settings"].t = "dict"
      ms == channel_data["module_settings"].d
      explicit == given /\ "position_precision" \in DOMAIN ms
                    /\ Truthy(ms["position_precision"])
      precision == IF explicit THEN py_int(ms["position_precision"])
                   ELSE [ok |-> TRUE, n |-> 32]
      muted == IF ~given THEN NoEntry
               ELSE IF "is_muted" \in DOMAIN ms
               THEN Entry(TRUE, IF Truthy(ms["is_muted"]) THEN 1 ELSE 0, << >>, << >>)
               ELSE IF "muted" \in DOMAIN ms
               THEN Entry(TRUE, IF Truthy(ms["muted"]) THEN 1 ELSE 0, << >>, << >>)
               ELSE IF "mute" \in DOMAIN ms
               THEN Entry(TRUE, IF Truthy(ms["mute"]) THEN 1 ELSE 0, << >>, << >>)
               ELSE NoEntry
  IN [ok |-> precision.ok,
      msg |-> [NewMessage("ModuleSettings") EXCEPT
                 !["position_precision"] = Entry(TRUE, precision.n, << >>, << >>),
                 !["is_muted"] = muted]]

\* the ModuleSettings block of a channel: [ok, msg]
build_module_settings(channel_data) ==
  LET given == "module_settings" \in DOMAIN channel_data
                 /\ channel_data["module_settings"].t = "dict"
      ms == channel_data["module_settings"].d
      explicit == given /\ "position_precision" \in DOMAIN ms
                    /\ ms["position_precision"] # None
      precision == IF explicit THEN py_int(ms["position_precision"])
                   ELSE [ok |-> TRUE, n |-> 32]
      muted == IF ~given THEN NoEntry
               ELSE IF "is_muted" \in DOMAIN ms
               THEN Entry(TRUE, IF Truthy(ms["is_muted"]) THEN 1 ELSE 0, << >>, << >>)
               ELSE IF "muted" \in DOMAIN ms
               THEN Entry(TRUE, IF Truthy(ms["muted"]) THEN 1 ELSE 0, << >>, << >>)
               ELSE IF "mute" \in DOMAIN ms
               THEN Entry(TRUE, IF Truthy(ms["mute"]) THEN 1 ELSE 0, << >>, << >>)
               ELSE NoEntry
  IN [ok |-> precision.ok,
      msg |-> [NewMessage("ModuleSettings") EXCEPT
                 !["position_precision"] = Entry(TRUE, precision.n, << >>, << >>),
                 !["is_muted"] = muted]]

\* the ChannelSettings block of a channel: [ok, msg]; ok = FALSE is an
\* exception raised while building it
build_settings(channel_data) ==
  LET has_name == "name" \in DOMAIN channel_data /\ Truthy(channel_data["name"])
      has_psk  == "psk" \in DOMAIN channel_data /\ Truthy(channel_data["psk"])
      flag(key) == IF key \in DOMAIN channel_data
                   THEN Entry(TRUE, IF Truthy(channel_data[key]) THEN 1 ELSE 0,
                              << >>, << >>)
                   ELSE NoEntry
      module == build_module_settings(channel_data)
  IN [ok |-> /\ (has_name => channel_data["name"].t = "str")
             /\ (has_psk => channel_data["psk"].t = "str")
             /\ module.ok,
      msg |-> [NewMessage("ChannelSettings") EXCEPT
                 !["name"] = IF has_name /\ channel_data["name"].t = "str"
                             THEN Entry(TRUE, 0, utf8_encode(channel_data["name"].s), << >>)
                             ELSE NoEntry,
                 !["psk"] = IF has_psk /\ channel_data["psk"].t = "str"
                            THEN Entry(TRUE, 0, resolve_psk(channel_data["psk"].s), << >>)
                            ELSE NoEntry,
                 !["uplink_enabled"] = flag("uplink_enabled"),
                 !["downlink_enabled"] = flag("downlink_enabled"),
                 !["module_settings"] = Entry(TRUE, 0, << >>, << module.msg >>)]]

\* the Channel envelope around the settings block built for it
channel_around(channel_data, index, settings) ==
  [ok |-> /\ settings.ok /\ index.t = "num" /\ index.n >= 0
          /\ ("role" \in DOMAIN channel_data => Hashable(channel_data["role"])),
   msg |-> [NewMessage("Channel") EXCEPT
              !["index"] = Entry(TRUE, IF index.t = "num" THEN index.n ELSE 0,
                                 << >>, << >>),
              !["role"] = Entry(TRUE, role_map(channel_data), << >>, << >>),
              !["settings"] = Entry(TRUE, 0, << >>, << settings.msg >>)]]

\* the Channel envelope of a channel: [ok, msg]
build_channel(channel_data, index) ==
  channel_around(channel_data, index, build_settings(channel_data))

preset_map ==
  [ LONG_FAST |-> 0, LONG_SLOW |-> 1, VERY_LONG_SLOW |-> 2, MEDIUM_SLOW |-> 3,
    MEDIUM_FAST |-> 4, SHORT_SLOW |-> 5, SHORT_FAST |-> 6, LONG_MODERATE |-> 7,
    SHORT_TURBO |-> 8,
    long_fast |-> 0, long_slow |-> 1, very_long_slow |-> 2, medium_slow |-> 3,
    medium_fast |-> 4, short_slow |-> 5, short_fast |-> 6 ]

region_map ==
  [ US |-> 1, EU_433 |-> 2, EU_868 |-> 3, CN |-> 4, JP |-> 5, ANZ |-> 6,
    KR |-> 7, TW |-> 8, RU |-> 9, NZ_865 |-> 11, TH |-> 12,
    LORA_24 |-> 13, UA_433 |-> 14, UA_868 |-> 15 ] @@ ("IN" :> 10)

\* the LoRaConfig block of a non-empty lora_config_data: [ok, msg]
build_lora_config(lora_config_data) ==
  LET given(key) == key \in DOMAIN lora_config_data
      flag(key) == IF given(key)
                   THEN Entry(TRUE, IF Truthy(lora_config_data[key]) THEN 1 ELSE 0,
                              << >>, << >>)
                   ELSE NoEntry
      int(key) == IF given(key) THEN py_int(lora_config_data[key])
                  ELSE [ok |-> TRUE, n |-> 0]
      integer(key) == IF given(key) THEN Entry(TRUE, int(key).n, << >>, << >>)
                      ELSE NoEntry
      flt(key) == IF given(key) THEN py_float(lora_config_data[key])
                  ELSE [ok |-> TRUE, b |-> << >>]
      float(key) == IF given(key) THEN Entry(TRUE, 0, flt(key).b, << >>)
                    ELSE NoEntry
      lookup(key, table, default) ==
        IF ~given(key) THEN NoEntry
        ELSE LET v == lora_config_data[key]
             IN Entry(TRUE, IF v.t = "name" /\ v.e \in DOMAIN table
                            THEN table[v.e] ELSE default, << >>, << >>)
      ints == {"bandwidth", "spread_factor", "coding_rate", "hop_limit",
               "tx_power", "channel_num"}
      floats == {"frequency_offset", "override_frequency"}
  IN [ok |-> (\A k \in ints : int(k).ok) /\ (\A k \in floats : flt(k).ok),
      msg |-> [NewMessage("LoRaConfig") EXCEPT
                 !["use_preset"] = flag("use_preset"),
                 !["modem_preset"] = lookup("modem_preset", preset_map, 0),
                 !["bandwidth"] = integer("bandwidth"),
                 !["spread_factor"] = integer("spread_factor"),
                 !["coding_rate"] = integer("coding_rate"),
                 !["frequency_offset"] = float("frequency_offset"),
                 !["hop_limit"] = integer("hop_limit"),
                 !["tx_enabled"] = flag("tx_enabled"),
                 !["tx_power"] = integer("tx_power"),
                 !["channel_num"] = integer("channel_num"),
                 !["override_duty_cycle"] = flag("override_duty_cycle"),
                 !["sx126x_rx_boosted_gain"] = flag("sx126x_rx_boosted_gain"),
                 !["override_frequency"] = float("override_frequency"),
                 !["region"] = lookup("region", region_map, 1)]]

\* the fixed channel-family prefix of an emitted URL
UrlPrefix == << "h", "t", "t", "p", "s", ":", "/", "/", "m", "e", "s", "h", "t", "a", "s", "t", "i", "c", ".", "o", "r", "g", "/", "e", "/", "#" >>

\* MeshtasticEncoder._generate_qr_code: the image is an external artifact
generate_qr_code(url) == [success |-> TRUE, data |-> url]

\* the decoded configuration merged into an encode response
merge_decoded(response, decoded_result) ==
  LET keys == IF ~decoded_result.success THEN {}
              ELSE IF "Config" \in DOMAIN decoded_result THEN {"Config"}
              ELSE DOMAIN decoded_result \ {"success", "url"}
  IN [k \in DOMAIN response \cup keys |->
        IF k \in keys THEN decoded_result[k] ELSE response[k]]

\* what an encode call returns when an exception reaches its handler
encode_failed(error) ==
  [response |-> [success |-> FALSE, error |-> error],
   record |-> << >>, protobuf_data |-> << >>, decoded_result |-> << >>]

\* settings inserted at the front instead of appended
append_settings_reversed(built) ==
  [i \in 1..Len(built) |->
     SubMessage("Channel", built[Len(built) + 1 - i].msg, "settings")]

\* channel_set.settings after the loop: the settings block of every channel
\* built, appended in input order
append_settings(built) ==
  [i \in 1..Len(built) |-> SubMessage("Channel", built[i].msg, "settings")]

\* the return of an encode call: the response (with the decoded
\* configuration merged) and the locals of the call; extra holds the fields
\* only one of the two operations reports
encode_return(extra, record, protobuf_data, url, decoded_result) ==
  [response |-> merge_decoded([success |-> TRUE, url |-> url,
                               qr_code |-> generate_qr_code(url),
                               encoded_size |-> Len(protobuf_data)] @@ extra,
                              decoded_result),
   record |-> record, protobuf_data |-> protobuf_data,
   decoded_result |-> decoded_result]

\* an encode call from the URL on: QR code, decode of the own URL, response
encode_url(extra, record, protobuf_data, url) ==
  encode_return(extra, record, protobuf_data, url, decode_channel_url(url).result)

\* an encode call from the serialized bytes on
encode_bytes(extra, record, protobuf_data) ==
  encode_url(extra, record, protobuf_data,
             UrlPrefix \o base64url_encode(protobuf_data))

\* an encode call from the finished record on
encode_record(extra, schema, record) ==
  encode_bytes(extra, record, SerializeToString(schema, record))

\* encode_channel_set after the loop and the LoRa block: built holds the
\* channels built, lora the LoRa block
channel_set_built(channels_data, with_lora, built, lora) ==
  IF (\E i \in 1..Len(built) : ~built[i].ok) \/ (with_lora /\ ~lora.ok)
  THEN encode_failed("Failed to encode channel set")
  ELSE encode_record([channels_count |-> Len(channels_data)], "ChannelSet",
         [NewMessage("ChannelSet") EXCEPT
            !["settings"] =
               Entry(Len(built) > 0, 0, << >>, append_settings(built)),
            !["lora_config"] =
               IF with_lora THEN Entry(TRUE, 0, << >>, << lora.msg >>)
               ELSE NoEntry])

\* MeshtasticEncoder.encode_channel_set.  response is the returned mapping;
\* record, protobuf_data and decoded_result are locals of the call.
encode_channel_set(channels_data, lora_config_data) ==
  channel_set_built(channels_data, Truthy(lora_config_data),
    [i \in 1..Len(channels_data) |-> build_channel(channels_data[i], Num(i - 1))],
    IF Truthy(lora_config_data) THEN build_lora_config(lora_config_data.d)
    ELSE [ok |-> TRUE, msg |-> NewMessage("LoRaConfig")])

\* encode_single_channel after the channel has been built
single_channel_built(channel) ==
  IF ~channel.ok
  THEN encode_failed("Failed to encode single channel")
  ELSE encode_record(<< >>, "Channel", channel.msg)

\* MeshtasticEncoder.encode_single_channel
encode_single_channel(channel_data) ==
  single_channel_built(
    build_channel(channel_data,
                  IF "index" \in DOMAIN channel_data THEN channel_data["index"]
                  ELSE Num(0)))

(***************************************************************************)
(* Inputs explored                                                         *)
(***************************************************************************)
\* longest generated payload and longest byte string of the base64 transform
MaxPayloadLen == 2

MaxBytesLen == 3

\* most channels in one encode_channel_set call
MaxChannels == 2

\* all byte strings over vals of length 0..n
ByteStrings(vals, n) == UNION { [1..k -> vals] : k \in 0..n }

\* tag and value bytes that make the candidate shapes agree and disagree:
\* varint and length-delimited tags of fields 1..4, an invalid wire type (15),
\* an unterminated varint / ill-formed UTF-8 (255)
PayloadByteVals == {0, 1, 8, 10, 15, 18, 24, 255}

\* payloads: the generated ones and a few longer ones: a ChannelSet with one
\* settings block, a LoRaConfig / Channel settings, a MeshPacket whose
\* embedded Data is truncated, a string field of ill-formed UTF-8
Payloads ==
  (ByteStrings(PayloadByteVals, MaxPayloadLen) \ { << >> })
    \cup { << 10, 2, 58, 0 >>, << 18, 2, 8, 1 >>, << 34, 1, 8 >>, << 10, 1, 255 >>,
           << 8, 1, 24, 1 >>, << 8, 0, 24, 1 >> }

\* text that is not base64
MalformedTexts == { << "A" >>, << "A", "A", "A", "A", "A" >>, << "C", "!", "E" >> }

\* text of padding only
PaddingText == << "=", "=", "=", "=" >>

PayloadTexts ==
  { base64url_encode(b) : b \in Payloads } \cup MalformedTexts \cup { PaddingText }

\* the payload a second source carries
OtherTexts == { base64url_encode(<< 8, 1 >>), << "A" >> }

Bases ==
  { << "h", "t", "t", "p", "s", ":", "/", "/", "m", "e", "s", "h", "t", "a", "s", "t", "i", "c", ".", "o", "r", "g", "/", "e", "/" >>,
    << "h", "t", "t", "p", "s", ":", "/", "/", "m", "e", "s", "h", "t", "a", "s", "t", "i", "c", ".", "o", "r", "g", "/", "v", "/" >>,
    << "h", "t", "t", "p", "s", ":", "/", "/", "m", "e", "s", "h", "t", "a", "s", "t", "i", "c", ".", "o", "r", "g", "/" >> }

\* the URL shapes given to the decoder: base, optional ?query, optional
\* #fragment (hash tells whether a '#' is written)
UrlShapes ==
  LET c(t) == << "c", "=" >> \o t
      shape(q, h, f) == [query |-> q, hash |-> h, fragment |-> f]
  IN { shape(<< >>, FALSE, << >>), shape(<< >>, TRUE, << >>),
       shape(<< "c", "=" >>, FALSE, << >>), shape(<< "c" >>, TRUE, << >>) }
     \cup { shape(<< >>, TRUE, t) : t \in PayloadTexts }
     \cup { shape(c(t), FALSE, << >>) : t \in PayloadTexts }
     \cup { shape(c(t), TRUE, << >>) : t \in PayloadTexts }
     \cup { shape(<< "d", "=" >> \o t, FALSE, << >>) : t \in OtherTexts }
     \cup { shape(c(o), TRUE, t) : o \in OtherTexts, t \in PayloadTexts }
     \cup { shape(c(t) \o << "&" >> \o c(o), FALSE, << >>) :
              o \in OtherTexts, t \in OtherTexts }
     \cup { shape(<< "x", "=", "/", "v", "/" >>, TRUE, t) : t \in OtherTexts }

\* the URL text of a base and a shape
MakeUrl(base, sh) ==
  base \o (IF sh.query # << >> THEN << "?" >> \o sh.query ELSE << >>)
       \o (IF sh.hash THEN << "#" >> \o sh.fragment ELSE << >>)

\* a key that is not in a mapping
Absent == [t |-> "absent"]

\* the mapping with the keys of r that are given
MakeDict(r) == [k \in { k \in DOMAIN r : r[k] # Absent } |-> r[k]]

\* key strings: 0x-hex, base64, 0x with bad hex, a short passphrase, and two
\* passphrases longer than 32 characters with blanks and punctuation (39
\* characters with 32 of the base64 alphabet, 42 characters with 35)
PskHex == << "0", "x", "A", "A", "B", "B", "C", "C" >>

PskBase64 == << "Z", "m", "9", "v" >>

PskBase64Padded == << "A", "Q", "=", "=" >>

PskBadHex == << "0", "x", "Z", "Z" >>

PskShortPhrase == << "m", "y", " ", "k", "e", "y" >>

PskPhrase39 == << "c", "o", "r", "r", "e", "c", "t", " ", "h", "o", "r", "s", "e", " ", "b", "a", "t", "t", "e", "r", "y", " ", "s", "t", "a", "p", "l", "e", " ", "a", "n", "d", " ", "m", "o", "r", "e", "!", "!" >>

PskPhrase42 == << "m", "y", " ", "s", "e", "c", "r", "e", "t", " ", "p", "a", "s", "s", "p", "h", "r", "a", "s", "e", " ", "f", "o", "r", " ", "t", "h", "e", " ", "m", "e", "s", "h", " ", "n", "e", "t", "w", "o", "r", "k", "!" >>

NameOpts == { Absent, Str(<< >>), Str(<< "P", "r", "i", "m", "a", "r", "y" >>) }

RoleOpts == { Absent, Name("primary"), Name("disabled"), Name("admin") }

PskOpts ==
  { Absent, Str(PskHex), Str(PskBase64), Str(PskPhrase39), Str(PskPhrase42) }

ModuleOpts ==
  { Absent, Dict([position_precision |-> Num(0)]),
    Dict([position_precision |-> None, mute |-> Bool(TRUE)]),
    Dict([position_precision |-> Str(<< "a", "b", "c" >>)]) }

\* the key strings tried alone
SinglePskOpts == PskOpts \ { Str(PskPhrase42) }

\* the channel specs given to encode_single_channel
SingleChannelInputs ==
  { MakeDict(r) : r \in [ name : NameOpts, role : RoleOpts, psk : SinglePskOpts,
                          uplink_enabled : { Absent, Bool(TRUE), Bool(FALSE) },
                          downlink_enabled : { Absent, Bool(TRUE) },
                          module_settings : ModuleOpts,
                          index : { Absent, Num(5) } ] }

\* the channel specs the lists given to encode_channel_set are made of
ListChannelInputs ==
  { << >>,
    [name |-> Str(<< "E" >>),
     module_settings |-> Dict([position_precision |-> Str(<< "a", "b", "c" >>)])],
    [name |-> Str(<< "B" >>), role |-> Name("primary"), psk |-> Str(PskHex)],
    [name |-> Str(<< "B" >>), psk |-> Str(PskHex), index |-> Num(7)],
    [name |-> Str(<< "B" >>), role |-> Dict(<< >>), psk |-> Str(PskHex)],
    [name |-> Str(<< "A" >>), role |-> Name("disabled"), index |-> Num(5),
     psk |-> Str(PskBase64), uplink_enabled |-> Bool(TRUE)],
    [psk |-> Str(PskPhrase39), role |-> Name("disabled"),
     module_settings |-> Dict([position_precision |-> Num(0)])],
    [name |-> Str(<< "C" >>), psk |-> Str(PskPhrase42),
     downlink_enabled |-> Bool(TRUE)],
    [psk |-> Str(PskBadHex), role |-> Name("admin"),
     module_settings |-> Dict([position_precision |-> Str(<< "1", "3" >>),
                               is_muted |-> Bool(FALSE), muted |-> Bool(TRUE)])],
    [psk |-> Str(PskBase64Padded), name |-> Str(<< "D" >>)],
    [psk |-> Str(PskShortPhrase), module_settings |-> Str(<< "x" >>)] }

ChannelLists == UNION { [1..k -> ListChannelInputs] : k \in 0..MaxChannels }

LoraInputs ==
  { None, Dict(<< >>), Dict([use_preset |-> Bool(FALSE)]),
    Dict([region |-> Name("US")]),
    Dict([modem_preset |-> Name("long_slow"), bandwidth |-> Num(125),
          frequency_offset |-> Num(1), region |-> Name("XX"),
          tx_enabled |-> Bool(TRUE)]),
    Dict([use_preset |-> Bool(TRUE), bandwidth |-> Str(<< "a", "b", "c" >>)]),
    Dict([hop_limit |-> Num(3), override_frequency |-> Str(<< "a", "b", "c" >>)]) }

\* mappings given to the Channel predicate: empty, a zero index alone, a
\* zero index with a role, a role alone, settings alone
ChannelDicts ==
  { Dict(<< >>), Dict([index |-> Num(0)]),
    Dict([index |-> Num(0), role |-> Name("PRIMARY")]),
    Dict([role |-> Name("SECONDARY")]),
    Dict([settings |-> Dict([name |-> Str(<< "A" >>)])]),
    Dict([settings |-> Dict(<< >>)]) }

\* bytes whose sextets include 62 and 63
Base64ByteVals == {0, 1, 102, 251, 255}

(***************************************************************************)
(* State: the call in progress (op, input) and what it returns (output)    *)
(***************************************************************************)
VARIABLES op, input, output

vars == << op, input, output >>

Init == op = "none" /\ input = << >> /\ output = << >>

\* decoder.decode_channel_url(url)
DecodeChannelUrl ==
  /\ op = "none"
  /\ \E base \in Bases, sh \in UrlShapes :
      /\ op' = "decode"
      /\ input' = [url |-> MakeUrl(base, sh), base |-> base, query |-> sh.query,
                   hash |-> sh.hash, fragment |-> sh.fragment]
      /\ output' = decode_channel_url(MakeUrl(base, sh))

\* encoder.encode_channel_set(channels, lora_config)
EncodeChannelSet ==
  /\ op = "none"
  /\ \E channels_data \in ChannelLists, lora_config_data \in LoraInputs :
      /\ op' = "encode_channel_set"
      /\ input' = [channels |-> channels_data, lora_config |-> lora_config_data]
      /\ output' = encode_channel_set(channels_data, lora_config_data)

\* encoder.encode_single_channel(channel)
EncodeSingleChannel ==
  /\ op = "none"
  /\ \E channel_data \in SingleChannelInputs :
      /\ op' = "encode_single_channel"
      /\ input' = [channel |-> channel_data]
      /\ output' = encode_single_channel(channel_data)

\* the base64url transform applied to a byte string and back
Base64RoundTrip ==
  /\ op = "none"
  /\ \E b \in ByteStrings(Base64ByteVals, MaxBytesLen) :
      /\ op' = "base64url"
      /\ input' = [bytes |-> b]
      /\ output' = [encoded |-> base64url_encode(b),
                    decoded |-> base64url_decode(base64url_encode(b))]

\* decoder._validate_channel_data(data)
ValidateChannelData ==
  /\ op = "none"
  /\ \E data \in ChannelDicts :
      /\ op' = "validate_channel_data"
      /\ input' = [data |-> data]
      /\ output' = [accepted |-> validate_channel_data(data)]

\* the URL shapes given to the command-line decoder
CliShapes ==
  LET shape(q, h, f) == [query |-> q, hash |-> h, fragment |-> f]
  IN { shape(<< >>, FALSE, << >>), shape(<< >>, TRUE, << >>),
       shape(<< "c", "=" >>, FALSE, << >>),
       shape(<< "d", "=" >> \o base64url_encode(<< 8, 1 >>), FALSE, << >>),
       shape(<< >>, TRUE, base64url_encode(<< 8, 1 >>)),
       shape(<< >>, TRUE, base64url_encode(<< 10, 1, 255 >>)),
       shape(<< "c", "=" >> \o base64url_encode(<< 8, 1 >>), FALSE, << >>) }
     \cup { shape(<< >>, TRUE, t) : t \in MalformedTexts }
     \cup { shape(<< "c", "=" >> \o t, FALSE, << >>) : t \in MalformedTexts }

\* python decode.py [--summary] [--pretty] url
CliMain ==
  /\ op = "none"
  /\ \E base \in Bases, sh \in CliShapes, summary \in BOOLEAN, pretty \in BOOLEAN :
      /\ op' = "cli"
      /\ input' = [url |-> MakeUrl(base, sh), base |-> base, query |-> sh.query,
                   hash |-> sh.hash, fragment |-> sh.fragment,
                   summary |-> summary, pretty |-> pretty]
      /\ output' = main(MakeUrl(base, sh), summary, pretty)

\* the caller takes the returned mapping; the handlers keep nothing
Return ==
  /\ op # "none"
  /\ op' = "none"
  /\ input' = << >>
  /\ output' = << >>

Next ==
  \/ DecodeChannelUrl
  \/ EncodeChannelSet
  \/ EncodeSingleChannel
  \/ Base64RoundTrip
  \/ ValidateChannelData
  \/ CliMain
  \/ Return

Spec == Init /\ [][Next]_vars

(***************************************************************************)
(* Two decode_channel_url calls running concurrently on the module-level   *)
(* decoder.  The instance has no attribute; what the calls share is the    *)
(* process's heap of list objects.  Under SpecConc, op maps each call to   *)
(* its position, input maps it to its URL, and output holds the heap and   *)
(* each call's local variables.                                            *)
(***************************************************************************)
Calls == { 1, 2 }

\* the URLs given to the two calls
ConcUrls ==
  { MakeUrl(base, [query |-> << >>, hash |-> TRUE, fragment |-> t]) :
      base \in { b \in Bases : Len(b) = 25 },
      t \in { base64url_encode(<< 255 >>), base64url_encode(<< 8, 1 >>),
              base64url_encode(<< 10, 1, 255 >>), << "C", "!", "E" >>, << >> } }

\* the locals of a call before its first statement
NoLocals ==
  [encoded_data |-> << >>, decoded_data |-> << >>, decode_attempts |-> 0,
   i |-> 0, result |-> << >>]

\* the heap with the list at address addr set to list
store(heap, addr, list) ==
  [a \in 1..(IF addr > Len(heap) THEN addr ELSE Len(heap)) |->
     IF a = addr THEN list ELSE heap[a]]

\* one list kept for all calls, as an attribute of the instance would be
new_list_on_instance(heap) == 1

\* decode_attempts = []: a list object no other call refers to
new_list(heap) == Len(heap) + 1

\* the candidates in the order the URL type selects
family_order(url) ==
  IF Contains(url, << "/", "v", "/" >>)
  THEN NodeCandidates \o ChannelCandidates
  ELSE ChannelCandidates \o NodeCandidates

\* a call that has returned result
returned(heap, locals, result) ==
  [pc |-> "done", heap |-> heap, locals |-> [locals EXCEPT !.result = result]]

\* a call past decode_attempts = [], its list at address addr
bound(heap, encoded_data, decoded_data, addr) ==
  [pc |-> "try", heap |-> store(heap, addr, << >>),
   locals |-> [NoLocals EXCEPT !.encoded_data = encoded_data,
                               !.decoded_data = decoded_data,
                               !.decode_attempts = addr, !.i = 1]]

\* a call after _base64url_decode
begin_decoded(url, heap, encoded_data, decoded) ==
  IF ~decoded.ok
  THEN returned(heap, NoLocals,
         decode_raised(url, encoded_data, "Failed to decode base64 data").result)
  ELSE bound(heap, encoded_data, decoded.bytes, new_list(heap))

\* a call after the payload extraction
begin_extracted(url, heap, extracted) ==
  IF ~extracted.ok
  THEN returned(heap, NoLocals,
         decode_raised(url, extracted.data,
                       "No encoded channel data found in URL").result)
  ELSE begin_decoded(url, heap, extracted.data, base64url_decode(extracted.data))

\* the position after the i-th try block gave no match
after_candidate(url, i) == IF i >= Len(family_order(url)) THEN "mesh" ELSE "try"

\* a call after the try block of candidate c with outcome r
tried(url, heap, locals, c, r) ==
  IF r.raised
  THEN [pc |-> after_candidate(url, locals.i),
        heap |-> store(heap, locals.decode_attempts,
                       Append(heap[locals.decode_attempts], c.failed)),
        locals |-> [locals EXCEPT !.i = @ + 1]]
  ELSE IF r.accepted
  THEN returned(heap, locals,
         ("success" :> TRUE) @@ ("url" :> url) @@ (c.key :> r.data))
  ELSE [pc |-> after_candidate(url, locals.i), heap |-> heap,
        locals |-> [locals EXCEPT !.i = @ + 1]]

\* a call after the MeshPacket block left it in st
mesh_tried(heap, locals, st) ==
  IF st.found THEN returned(heap, locals, st.result)
  ELSE [pc |-> "unmatched",
        heap |-> store(heap, locals.decode_attempts, st.decode_attempts),
        locals |-> locals]

\* the step of call t takes it to nxt
Step(t, nxt) ==
  /\ op' = [op EXCEPT ![t] = nxt.pc]
  /\ output' = [heap |-> nxt.heap,
                locals |-> [output.locals EXCEPT ![t] = nxt.locals]]
  /\ UNCHANGED input

ConcInit ==
  /\ op = [t \in Calls |-> "start"]
  /\ input \in [Calls -> ConcUrls]
  /\ output = [heap |-> << >>, locals |-> [t \in Calls |-> NoLocals]]

\* call t: from its entry to decode_attempts = []
ConcBegin(t) ==
  /\ op[t] = "start"
  /\ Step(t, begin_extracted(input[t], output.heap,
                             extract_encoded_data(urlparse(input[t]))))

\* call t: the next try block of the two families
ConcTry(t) ==
  /\ op[t] = "try"
  /\ Step(t, tried(input[t], output.heap, output.locals[t],
                   family_order(input[t])[output.locals[t].i],
                   try_block(family_order(input[t])[output.locals[t].i],
                             output.locals[t].decoded_data)))

\* call t: the MeshPacket block
ConcMeshPacket(t) ==
  /\ op[t] = "mesh"
  /\ Step(t, mesh_tried(output.heap, output.locals[t],
               try_mesh_packet(output.locals[t].decoded_data, input[t],
                 NoMatch(output.heap[output.locals[t].decode_attempts], << >>))))

\* call t: the return of the failure mapping with the attempt log
ConcUnmatched(t) ==
  /\ op[t] = "unmatched"
  /\ Step(t, returned(output.heap, output.locals[t],
               decode_return(input[t], output.locals[t].encoded_data,
                 output.locals[t].decoded_data,
                 NoMatch(output.heap[output.locals[t].decode_attempts],
                         << >>)).result))

ConcNext ==
  \E t \in Calls :
    \/ ConcBegin(t)
    \/ ConcTry(t)
    \/ ConcMeshPacket(t)
    \/ ConcUnmatched(t)

SpecConc == ConcInit /\ [][ConcNext]_vars

(***************************************************************************)
(* Properties                                                              *)
(***************************************************************************)
IsEncode == op \in {"encode_channel_set", "encode_single_channel"}

NodeKeys == {"Node", "User", "Position", "MyNodeInfo"}

\* the channel specs of the encode call in progress
EncChannels ==
  IF op = "encode_channel_set" THEN input.channels ELSE << input.channel >>

\* the settings blocks of the record the encode call built
BuiltSettings == output.record["settings"].ms

\* the settings entries of a decoded Config
SettingsList(config) ==
  IF "settings" \in DOMAIN config.d THEN config.d["settings"].l ELSE << >>

\* the name a channel spec gives (None when it gives none or an empty one)
GivenName(channel_data) ==
  IF "name" \in DOMAIN channel_data /\ Truthy(channel_data["name"])
  THEN channel_data["name"] ELSE None

\* C1: whenever encode_channel_set or encode_single_channel returns
\* success=true with a url, decode_channel_url of that url returns
\* success=true with key Config
C1_EncodedUrlDecodesAsConfig ==
  (IsEncode /\ output.response.success) =>
    LET d == decode_channel_url(output.response.url).result
    IN d.success /\ "Config" \in DOMAIN d

C3_Base64RoundTrip ==
  op = "base64url" =>
    /\ output.decoded.ok
    /\ output.decoded.bytes = input.bytes
    /\ \A k \in 1..Len(output.encoded) : output.encoded[k] \notin {"=", "+", "/"}

C3_Witness ==
  /\ op = "base64url"
  /\ Len(input.bytes) % 3 = 2
  /\ \E k \in 1..Len(output.encoded) : output.encoded[k] = "_"
  /\ \E k \in 1..Len(output.encoded) : output.encoded[k] = "-"
  /\ output.decoded.bytes = input.bytes

\* the first value of a query that starts with the parameter c
FirstCValue(query) ==
  SubSeq(query, 3, IF Find(query, "&") = 0 THEN Len(query) ELSE Find(query, "&") - 1)

HasC(query) == startswith(query, << "c", "=" >>) /\ FirstCValue(query) # << >>

\* what a decode call computed, apart from the URL text it echoes
Outcome(d) ==
  [encoded_data |-> d.encoded_data, decoded_data |-> d.decoded_data,
   attempted |-> d.attempted, decode_attempts |-> d.decode_attempts,
   result |-> [k \in DOMAIN d.result \ {"url", "raw_data"} |-> d.result[k]]]

\* C4: with a non-empty fragment the decoder decodes the fragment text,
\* whatever the value of c is; with an empty fragment it decodes the first
\* value of c
C4_FragmentBeforeQuery ==
  op = "decode" =>
    /\ input.fragment # << >> => output.encoded_data = input.fragment
    /\ (input.fragment # << >> /\ HasC(input.query)) =>
         \A o \in OtherTexts :
           Outcome(output) =
             Outcome(decode_channel_url(
               MakeUrl(input.base, [query |-> << "c", "=" >> \o o, hash |-> TRUE,
                                    fragment |-> input.fragment])))
    /\ (input.fragment = << >> /\ HasC(input.query)) =>
         output.encoded_data = FirstCValue(input.query)

C4_Witness ==
  /\ op = "decode"
  /\ input.fragment # << >>
  /\ HasC(input.query)
  /\ FirstCValue(input.query) # input.fragment
  /\ FirstCValue(input.query) \in MalformedTexts
  /\ output.result.success

\* whether a candidate parses the bytes and its plausibility predicate holds
Accepts(schema, bytes) ==
  LET p == ParseFromString(schema, bytes)
  IN p.ok /\ Validate(schema, MessageToDict(schema, p.msg))

AcceptedByBothFamilies(bytes) ==
  /\ \E c \in {"NodeInfo", "User", "Position", "MyNodeInfo"} : Accepts(c, bytes)
  /\ \E c \in {"ChannelSet", "Channel"} : Accepts(c, bytes)

\* the URL type the decoder computes: node-like when '/v/' occurs in the URL
IsNodeUrl(url) == Contains(url, << "/", "v", "/" >>)

C6_OneEntryPerRejectedCandidate ==
  (op = "decode" /\ output.attempted # << >>) =>
    /\ Len(output.decode_attempts) =
         Len(output.attempted) - (IF output.result.success THEN 1 ELSE 0)
    /\ ~output.result.success => Len(output.result.decode_attempts) = 7

\* the payload text of the decode call in progress, by the shape of its URL
NoPayload ==
  /\ input.fragment = << >>
  /\ ~HasC(input.query)

PayloadText ==
  IF input.fragment # << >> THEN input.fragment ELSE FirstCValue(input.query)

\* C7: when there is no payload or the payload text is not base64, the
\* decoder returns success=false with an error, attempts no candidate, and
\* returns neither decode_attempts nor raw_data
C7_HardFailureShortCircuits ==
  (op = "decode" /\ (NoPayload \/ PayloadText \in MalformedTexts)) =>
    /\ ~output.result.success
    /\ "error" \in DOMAIN output.result
    /\ output.attempted = << >>
    /\ "decode_attempts" \notin DOMAIN output.result
    /\ "raw_data" \notin DOMAIN output.result

C7_Witness ==
  /\ op = "decode"
  /\ input.fragment \in MalformedTexts
  /\ ~output.result.success
  /\ output.result.error = "Failed to decode base64 data"
  /\ output.attempted = << >>

\* C8: for every single-channel spec with a non-empty name,
\* encode_single_channel returns success=true, a url with the fixed prefix,
\* and a Config that is the Channel record, with settings.name the input name
C8_SingleChannelConfig ==
  (op = "encode_single_channel" /\ GivenName(input.channel) # None) =>
    /\ output.response.success
    /\ startswith(output.response.url, UrlPrefix)
    /\ "Config" \in DOMAIN output.response
    /\ output.response["Config"] = MessageToDict("Channel", output.record)
    /\ Get(Get(output.response["Config"], "settings"), "name")
         = GivenName(input.channel)

\* a string of hexadecimal digit pairs
ValidHex(s) == Len(s) % 2 = 0 /\ \A k \in 1..Len(s) : HexVal(s[k]) < 16

\* the bytes hexadecimal digit pairs stand for
HexBytes(s) ==
  [k \in 1..(Len(s) \div 2) |-> 16 * HexVal(s[2 * k - 1]) + HexVal(s[2 * k])]

\* text of the base64 alphabet in quads, with at most two '=' at the end
StrictBase64(s) ==
  /\ s # << >>
  /\ Len(s) % 4 = 0
  /\ \A k \in 1..Len(s) :
       table_a2b(s[k]) < 64 \/ (s[k] = "=" /\ k >= Len(s) - 1 /\
                                 \A m \in k..Len(s) : s[m] = "=")

\* C9: a key string 0x + valid hex is stored as the bytes the hex digits
\* stand for; a key string without the prefix that is valid base64 is stored
\* as the bytes it encodes
C9_PskHexAndBase64 ==
  (IsEncode /\ output.response.success) =>
    \A i \in 1..Len(EncChannels) :
      ("psk" \in DOMAIN EncChannels[i] /\ EncChannels[i]["psk"].t = "str") =>
        LET p == EncChannels[i]["psk"].s
            rest == SubSeq(p, 3, Len(p))
            stored == BuiltSettings[i]["psk"].b
        IN /\ (startswith(p, << "0", "x" >>) /\ ValidHex(rest)) =>
                stored = HexBytes(rest)
           /\ (~startswith(p, << "0", "x" >>) /\ StrictBase64(p)) =>
                b64encode(stored) = p

\* the key string a channel spec gives, if any
HasPskString(channel_data, psk_str) ==
  "psk" \in DOMAIN channel_data /\ channel_data["psk"] = Str(psk_str)

C9_Witness ==
  /\ IsEncode
  /\ output.response.success
  /\ \E i \in 1..Len(EncChannels) :
       /\ HasPskString(EncChannels[i], PskHex)
       /\ BuiltSettings[i]["psk"].b = << 170, 187, 204 >>
  /\ \E i \in 1..Len(EncChannels) :
       /\ HasPskString(EncChannels[i], PskBase64)
       /\ BuiltSettings[i]["psk"].b = << 102, 111, 111 >>

\* C10: a key string of more than 32 characters that is not 0x-hex and has
\* a character outside the base64 alphabet is stored as the first 32 bytes
\* of its UTF-8 encoding
C10_LongOpaquePskTruncated ==
  (IsEncode /\ output.response.success) =>
    \A i \in 1..Len(EncChannels) :
      ("psk" \in DOMAIN EncChannels[i] /\ EncChannels[i]["psk"].t = "str") =>
        LET p == EncChannels[i]["psk"].s
        IN (/\ Len(p) > 32
            /\ ~(startswith(p, << "0", "x" >>) /\ ValidHex(SubSeq(p, 3, Len(p))))
            /\ \E k \in 1..Len(p) : table_a2b(p[k]) = 64 /\ p[k] # "=") =>
             BuiltSettings[i]["psk"].b = SubSeq(utf8_encode(p), 1, 32)

\* a value int() and float() raise for: not a number, a bool or text of
\* decimal digits
NotNumeric(j) ==
  \/ j.t \notin {"num", "bool", "str"}
  \/ j.t = "str" /\ (j.s = << >> \/ \E k \in 1..Len(j.s) : HexVal(j.s[k]) > 9)

\* the numeric fields of a LoRa mapping
LoraNumericKeys ==
  {"bandwidth", "spread_factor", "coding_rate", "hop_limit", "tx_power",
   "channel_num", "frequency_offset", "override_frequency"}

\* a channel spec whose position_precision is given and not numeric
BadPrecision(channel_data) ==
  /\ "module_settings" \in DOMAIN channel_data
  /\ channel_data["module_settings"].t = "dict"
  /\ "position_precision" \in DOMAIN channel_data["module_settings"].d
  /\ channel_data["module_settings"].d["position_precision"] # None
  /\ NotNumeric(channel_data["module_settings"].d["position_precision"])

\* a LoRa mapping the encoder reads with a numeric field that is not numeric
BadLora ==
  /\ op = "encode_channel_set"
  /\ input.lora_config.t = "dict"
  /\ \E k \in LoraNumericKeys \cap DOMAIN input.lora_config.d :
       NotNumeric(input.lora_config.d[k])

\* C11: an encode call whose input has a numeric field that cannot be
\* coerced returns success=false with an error and no url, qr_code, Config
\* or encoded_size, whatever was built before the failing field
C11_CoercionFailureFailsEncode ==
  (IsEncode /\ (BadLora \/ \E i \in 1..Len(EncChannels) : BadPrecision(EncChannels[i]))) =>
    /\ ~output.response.success
    /\ "error" \in DOMAIN output.response
    /\ DOMAIN output.response \cap {"url", "qr_code", "Config", "encoded_size"} = {}

C11_Witness ==
  /\ op = "encode_channel_set"
  /\ Len(input.channels) = 2
  /\ ~BadPrecision(input.channels[1])
  /\ GivenName(input.channels[1]) = Str(<< "B" >>)
  /\ BadPrecision(input.channels[2])
  /\ ~BadLora
  /\ ~output.response.success

\* the mapping the call in progress returns to its caller
Returned == IF op = "decode" THEN output.result ELSE output.response

\* C12: decode_channel_url, encode_channel_set and encode_single_channel
\* return, for every input, a mapping with a boolean success key, and with
\* an error key whenever success is false
C12_AlwaysStructuredResult ==
  (op = "decode" \/ IsEncode) =>
    /\ "success" \in DOMAIN Returned
    /\ Returned.success \in BOOLEAN
    /\ ~Returned.success => "error" \in DOMAIN Returned

C12_Witness ==
  /\ op = "decode"
  /\ NoPayload
  /\ DOMAIN Returned = {"success", "error", "url"}
  /\ ~Returned.success
  /\ Returned.error = "No encoded channel data found in URL"

\* the decode call in progress ended by accepting the Channel candidate
ChannelAccepted ==
  /\ output.result.success
  /\ output.attempted[Len(output.attempted)] = "Channel"
  /\ "Config" \in DOMAIN output.result

\* whether the decode call in progress ran the Channel candidate
ChannelAttempted == \E k \in 1..Len(output.attempted) : output.attempted[k] = "Channel"

\* C13: the Channel candidate rejects a payload that parses as a Channel
\* with every field at its default, accepts one that parses with index 0 and
\* a role set, and its predicate takes a zero index in the mapping as an
\* explicit index
C13_ChannelPlausibility ==
  /\ (op = "decode" /\ ChannelAttempted) =>
       LET p == ParseFromString("Channel", output.decoded_data)
       IN p.ok =>
            /\ (p.msg["index"].n = 0 /\ p.msg["role"].n = 0
                  /\ Len(p.msg["settings"].ms) = 0) => ~ChannelAccepted
            /\ (p.msg["index"].n = 0 /\ p.msg["role"].n # 0) => ChannelAccepted
  /\ op = "validate_channel_data" =>
       /\ input.data = Dict(<< >>) => ~output.accepted
       /\ ("index" \in DOMAIN input.data.d /\ input.data.d["index"] = Num(0))
            => output.accepted

C13_Witness ==
  /\ op = "decode"
  /\ output.decoded_data = << 8, 0, 24, 1 >>
  /\ ChannelAccepted
  /\ output.result["Config"] = Dict([role |-> Name("PRIMARY")])

\* the registry order of each family
NodeRegistry == << "NodeInfo", "User", "Position", "MyNodeInfo" >>

ChannelRegistry == << "ChannelSet", "Channel" >>

\* the result key a shape is returned under
KeyOf(schema) ==
  CASE schema = "NodeInfo" -> "Node"
    [] schema \in {"ChannelSet", "Channel"} -> "Config"
    [] OTHER -> schema

\* the attempts of one family, in the order they were made
AttemptsOf(registry) ==
  SelectSeq(output.attempted, LAMBDA x : \E k \in 1..Len(registry) : registry[k] = x)

IsPrefix(a, b) == Len(a) <= Len(b) /\ a = SubSeq(b, 1, Len(a))

\* whether a shape, tried on the bytes, is taken as the match
Taken(schema, bytes) ==
  IF schema = "MeshPacket" THEN ParseFromString("MeshPacket", bytes).ok
  ELSE Accepts(schema, bytes)

\* C14: within each family the candidates are attempted in registry order,
\* each at most once; no candidate is attempted after an accepted one, and a
\* successful result is the match of the accepted candidate
C14_RegistryOrder ==
  (op = "decode" /\ output.attempted # << >>) =>
    LET n == Len(output.attempted)
        last == output.attempted[n]
    IN /\ IsPrefix(AttemptsOf(NodeRegistry), NodeRegistry)
       /\ IsPrefix(AttemptsOf(ChannelRegistry), ChannelRegistry)
       /\ \A k \in 1..(n - 1) : ~Taken(output.attempted[k], output.decoded_data)
       /\ output.result.success = Taken(last, output.decoded_data)
       /\ output.result.success =>
            /\ KeyOf(last) \in DOMAIN output.result
            /\ output.result[KeyOf(last)] =
                 MessageToDict(last, ParseFromString(last, output.decoded_data).msg)

C14_Witness ==
  /\ op = "decode"
  /\ output.attempted = << "NodeInfo", "User", "Position" >>
  /\ output.result.success
  /\ "Position" \in DOMAIN output.result

FamilyShapes == {"NodeInfo", "User", "Position", "MyNodeInfo", "ChannelSet", "Channel"}

\* whether the decode call in progress ran the MeshPacket shape
MeshPacketAttempted ==
  \E k \in 1..Len(output.attempted) : output.attempted[k] = "MeshPacket"

\* C15: MeshPacket is attempted exactly when every candidate of both families
\* has been attempted and rejected, whatever the URL type, and it is accepted
\* without a plausibility check whenever it parses, under key MeshPacket
C15_MeshPacketLastResort ==
  (op = "decode" /\ output.attempted # << >>) =>
    LET n == Len(output.attempted)
        parsed == ParseFromString("MeshPacket", output.decoded_data)
    IN /\ MeshPacketAttempted =>
            /\ n = 7
            /\ output.attempted[n] = "MeshPacket"
            /\ { output.attempted[k] : k \in 1..(n - 1) } = FamilyShapes
       /\ MeshPacketAttempted =
            (\A c \in FamilyShapes : ~Accepts(c, output.decoded_data))
       /\ (MeshPacketAttempted /\ parsed.ok) =>
            /\ output.result.success
            /\ DOMAIN output.result = {"success", "url", "MeshPacket"}
            /\ output.result["MeshPacket"] = MessageToDict("MeshPacket", parsed.msg)
       /\ (MeshPacketAttempted /\ ~parsed.ok) => ~output.result.success

C15_Witness ==
  /\ op = "decode"
  /\ IsNodeUrl(input.url)
  /\ Len(output.attempted) = 7
  /\ output.attempted[1] = "NodeInfo"
  /\ output.attempted[7] = "MeshPacket"
  /\ output.result.success
  /\ "MeshPacket" \in DOMAIN output.result
  /\ output.result["MeshPacket"] = Dict(<< >>)

\* the URL with the path of the call in progress and its payload text in the
\* fragment, and nothing else
PlainUrl ==
  MakeUrl(input.base, [query |-> << >>, hash |-> TRUE, fragment |-> PayloadText])

\* C16: two URLs with the same path and the same payload text give the same
\* candidate order, whatever else the URL holds
C16_ClassificationByPath ==
  (op = "decode" /\ output.attempted # << >>) =>
    /\ urlparse(PlainUrl).path = urlparse(input.url).path
    /\ decode_channel_url(PlainUrl).encoded_data = output.encoded_data
    /\ decode_channel_url(PlainUrl).attempted = output.attempted

\* C17: a key string that starts with 0x and whose remainder is not valid hex
\* is next tried as base64, and the UTF-8 text is stored only when the base64
\* attempt fails too
C17_PskBadHexTriedAsBase64 ==
  (IsEncode /\ output.response.success) =>
    \A i \in 1..Len(EncChannels) :
      ("psk" \in DOMAIN EncChannels[i] /\ EncChannels[i]["psk"].t = "str") =>
        LET p == EncChannels[i]["psk"].s
        IN (startswith(p, << "0", "x" >>) /\ ~ValidHex(SubSeq(p, 3, Len(p)))) =>
             BuiltSettings[i]["psk"].b =
               IF b64decode(p).ok THEN b64decode(p).bytes
               ELSE SubSeq(utf8_encode(p), 1, 32)

\* whether a channel spec leaves position_precision to the default
PrecisionDefaulted(channel_data) ==
  \/ "module_settings" \notin DOMAIN channel_data
  \/ channel_data["module_settings"].t # "dict"
  \/ "position_precision" \notin DOMAIN channel_data["module_settings"].d
  \/ channel_data["module_settings"].d["position_precision"] = None

\* the number a given position_precision stands for
PrecisionGiven(channel_data) ==
  LET j == channel_data["module_settings"].d["position_precision"]
  IN IF j.t = "num" THEN j.n ELSE digits_value(j.s, 0)

\* the settings blocks read back from the bytes the encode call emitted
EmittedSettings ==
  ParseFromString(IF op = "encode_channel_set" THEN "ChannelSet" ELSE "Channel",
                  output.protobuf_data).msg["settings"].ms

C19_CliHardFailureExitsNonzero ==
  (op = "cli" /\ (NoPayload \/ PayloadText \in MalformedTexts)) =>
    /\ output.exit_code # 0
    /\ output.stderr # << >>

\* C20: in every interleaving of two decode calls on the shared decoder,
\* each call returns what it returns when run alone, and its attempt log
\* holds only the entries of its own candidate attempts
C20_ConcurrentDecodesIndependent ==
  \A t \in Calls :
    /\ op[t] = "done" =>
         output.locals[t].result = decode_channel_url(input[t]).result
    /\ output.locals[t].decode_attempts # 0 =>
         IsPrefix(output.heap[output.locals[t].decode_attempts],
                  decode_channel_url(input[t]).decode_attempts)

C20_Witness ==
  /\ op[1] = "unmatched"
  /\ op[2] = "unmatched"
  /\ Len(output.heap[output.locals[1].decode_attempts]) = 7
  /\ Len(output.heap[output.locals[2].decode_attempts]) = 7
  /\ output.heap[output.locals[1].decode_attempts]
       # output.heap[output.locals[2].decode_attempts]

\* a channel spec without the keys of its envelope
WithoutEnvelope(channel_data) ==
  [k \in DOMAIN channel_data \ { "role", "index" } |-> channel_data[k]]

\* two channel lists that differ at most in the role and index of their specs
SameButEnvelope(a, b) ==
  /\ Len(a) = Len(b)
  /\ \A i \in 1..Len(a) : WithoutEnvelope(a[i]) = WithoutEnvelope(b[i])

\* what of a response the url and Config are
UrlAndConfig(response) ==
  [k \in DOMAIN response \cap { "url", "Config" } |-> response[k]]

\* C21: in encode_channel_set two channel lists that differ only in the
\* role and index keys of their specs give the same url and the same Config
C21_EnvelopeDoesNotReachUrl ==
  op = "encode_channel_set" =>
    \A other \in ChannelLists :
      SameButEnvelope(input.channels, other) =>
        UrlAndConfig(encode_channel_set(other, input.lora_config).response)
          = UrlAndConfig(output.response)

\* the decode call returned the failure mapping with the diagnostic data
Unmatched ==
  /\ op = "decode"
  /\ ~output.result.success
  /\ "raw_data" \in DOMAIN output.result

\* C22: decode_channel_url returns success=false with decode_attempts and
\* raw_data only when the MeshPacket parse raised: decode_attempts is not
\* empty and ends with the MeshPacket failure, raw_data.decoded_length is the
\* number of decoded bytes and raw_data.encoded_length the length of the
\* payload text
C22_UnmatchedAfterMeshPacketFailure ==
  /\ (op = "decode" /\ "decode_attempts" \in DOMAIN output.result) => Unmatched
  /\ Unmatched =>
       /\ "decode_attempts" \in DOMAIN output.result
       /\ output.result.decode_attempts # << >>
       /\ output.result.decode_attempts[Len(output.result.decode_attempts)]
            = "MeshPacket failed"
       /\ output.attempted[Len(output.attempted)] = "MeshPacket"
       /\ ~ParseFromString("MeshPacket", base64url_decode(PayloadText).bytes).ok
       /\ output.result.raw_data.decoded_length
            = Len(base64url_decode(PayloadText).bytes)
       /\ output.result.raw_data.encoded_length = Len(PayloadText)

C22_Witness ==
  /\ Unmatched
  /\ input.fragment = << >>
  /\ output.result.raw_data.encoded_length = 2
  /\ output.result.raw_data.decoded_length = 1
  /\ Len(output.result.decode_attempts) = 7

====
